---- MODULE Spec2Model ----
(***************************************************************************)
(* CampusCompanion python-ai-service: the intent router                    *)
(* (chatbot/intelligent_chatbot.py), its conversation store and the        *)
(* keyword classifiers it is built on.                                     *)
(*                                                                         *)
(* Text is modelled as a sequence of one-character strings, so that        *)
(* str.lower() and the substring test `kw in s` are computed, not assumed. *)
(***************************************************************************)
EXTENDS Integers, Sequences, FiniteSets, TLC

(* ---------------------------------------------------------------------- *)
(* Text: str.lower() and `needle in haystack`                              *)
(* ---------------------------------------------------------------------- *)

action_keywords ==
    { <<"c", "r", "e", "a", "t", "e">>,
      <<"g", "e", "n", "e", "r", "a", "t", "e">>,
      <<"m", "a", "k", "e">>,
      <<"s", "h", "o", "w", " ", "m", "e">>,
      <<"f", "i", "n", "d">>,
      <<"s", "e", "a", "r", "c", "h">>,
      <<"e", "n", "r", "o", "l", "l">>,
      <<"r", "e", "g", "i", "s", "t", "e", "r">>,
      <<"a", "d", "d">>,
      <<"s", "c", "h", "e", "d", "u", "l", "e">>,
      <<"p", "l", "a", "n">>,
      <<"l", "i", "s", "t", " ", "m", "y">>,
      <<"w", "h", "a", "t", " ", "a", "r", "e", " ", "m", "y">>,
      <<"g", "e", "t", " ", "m", "y">> }

planner_words ==
    { <<"s", "t", "u", "d", "y", " ", "p", "l", "a", "n">>,
      <<"l", "e", "a", "r", "n", "i", "n", "g", " ", "p", "l", "a", "n">>,
      <<"s", "c", "h", "e", "d", "u", "l", "e">> }

assignment_words ==
    { <<"a", "s", "s", "i", "g", "n", "m", "e", "n", "t">>,
      <<"h", "o", "m", "e", "w", "o", "r", "k">>,
      <<"t", "a", "s", "k">> }

greetings ==
    { <<"h", "e", "l", "l", "o">>,
      <<"h", "i">>,
      <<"h", "e", "y">>,
      <<"g", "o", "o", "d", " ", "m", "o", "r", "n", "i", "n", "g">>,
      <<"g", "o", "o", "d", " ", "a", "f", "t", "e", "r", "n", "o", "o", "n">> }

course_words ==
    { <<"c", "o", "u", "r", "s", "e">>,
      <<"c", "l", "a", "s", "s">>,
      <<"s", "u", "b", "j", "e", "c", "t">> }

w_help == <<"h", "e", "l", "p">>

w_event == <<"e", "v", "e", "n", "t">>

Fragments ==
    { <<"c", "r", "e", "a", "t", "e">>,
      <<"g", "e", "n", "e", "r", "a", "t", "e">>,
      <<"m", "a", "k", "e">>,
      <<"s", "h", "o", "w", " ", "m", "e">>,
      <<"f", "i", "n", "d">>,
      <<"s", "e", "a", "r", "c", "h">>,
      <<"e", "n", "r", "o", "l", "l">>,
      <<"r", "e", "g", "i", "s", "t", "e", "r">>,
      <<"a", "d", "d">>,
      <<"s", "c", "h", "e", "d", "u", "l", "e">>,
      <<"p", "l", "a", "n">>,
      <<"l", "i", "s", "t", " ", "m", "y">>,
      <<"w", "h", "a", "t", " ", "a", "r", "e", " ", "m", "y">>,
      <<"g", "e", "t", " ", "m", "y">>,
      <<"s", "t", "u", "d", "y">>,
      <<"l", "e", "a", "r", "n", "i", "n", "g">>,
      <<"a", "s", "s", "i", "g", "n", "m", "e", "n", "t">>,
      <<"h", "o", "m", "e", "w", "o", "r", "k">>,
      <<"t", "a", "s", "k">>,
      <<"h", "e", "l", "l", "o">>,
      <<"h", "e", "y">>,
      <<"g", "o", "o", "d", " ", "m", "o", "r", "n", "i", "n", "g">>,
      <<"g", "o", "o", "d", " ", "a", "f", "t", "e", "r", "n", "o", "o", "n">>,
      <<"h", "e", "l", "p">>,
      <<"c", "o", "u", "r", "s", "e">>,
      <<"c", "l", "a", "s", "s">>,
      <<"s", "u", "b", "j", "e", "c", "t">>,
      <<"e", "v", "e", "n", "t">>,
      <<"s", "h", "o", "w">>,
      <<"l", "i", "s", "t">>,
      <<"m", "y">>,
      <<"t", "h", "a", "n", "k", "s">>,
      <<"t", "h", "i", "s">>,
      <<"a", "d", "d", "r", "e", "s", "s">>,
      <<"p", "l", "a", "n", "e", "t">>,
      <<"a">> }

CasePairs ==
    { <<"A", "a">>, <<"B", "b">>, <<"C", "c">>, <<"D", "d">>, <<"E", "e">>, <<"F", "f">>,
      <<"G", "g">>, <<"H", "h">>, <<"I", "i">>, <<"J", "j">>, <<"K", "k">>, <<"L", "l">>,
      <<"M", "m">>, <<"N", "n">>, <<"O", "o">>, <<"P", "p">>, <<"Q", "q">>, <<"R", "r">>,
      <<"S", "s">>, <<"T", "t">>, <<"U", "u">>, <<"V", "v">>, <<"W", "w">>, <<"X", "x">>,
      <<"Y", "y">>, <<"Z", "z">> }
list_words ==
    { <<"l", "i", "s", "t">>,
      <<"s", "h", "o", "w">>,
      <<"w", "h", "a", "t", " ", "a", "r", "e">>,
      <<"m", "y", " ", "a", "s", "s", "i", "g", "n", "m", "e", "n", "t", "s">> }

generate_words ==
    { <<"g", "e", "n", "e", "r", "a", "t", "e">>,
      <<"c", "r", "e", "a", "t", "e">>,
      <<"w", "r", "i", "t", "e">>,
      <<"h", "e", "l", "p", " ", "m", "e", " ", "w", "i", "t", "h">> }

help_words ==
    { <<"h", "e", "l", "p">>,
      <<"s", "t", "u", "c", "k">>,
      <<"h", "o", "w", " ", "t", "o">>,
      <<"g", "u", "i", "d", "e">> }

SequentialMessages ==
    { <<"h", "e", "l", "l", "o">>,
      <<"h", "e", "y", " ", "h", "e", "l", "p">>,
      <<"h", "e", "l", "p", " ", "c", "l", "a", "s", "s">>,
      <<"C", "L", "A", "S", "S", " ", "e", "v", "e", "n", "t">>,
      <<"e", "v", "e", "n", "t">>,
      <<"t", "h", "a", "n", "k", "s">>,
      <<"l", "i", "s", "t", " ", "m", "y", " ", "a", "s", "s", "i", "g", "n", "m", "e", "n", "t", "s">>,
      <<"C", "r", "e", "a", "t", "e", " ", "s", "t", "u", "d", "y", " ", "p", "l", "a", "n">>,
      <<"m", "a", "k", "e", " ", "a", " ", "s", "t", "u", "d", "y", " ", "g", "u", "i", "d", "e">>,
      <<"f", "i", "n", "d", " ", "h", "o", "m", "e", "w", "o", "r", "k", " ", "h", "e", "l", "p">>,
      <<"s", "e", "a", "r", "c", "h", " ", "t", "h", "i", "s">>,
      <<"a", "d", "d", " ", "t", "a", "s", "k", " ", "t", "o", " ", "s", "c", "h", "e", "d", "u", "l", "e">>,
      <<"L", "E", "A", "R", "N", "I", "N", "G", " ", "P", "L", "A", "N">> }

FollowUpMessages ==
    { <<"h", "e", "l", "l", "o">>,
      <<"t", "h", "a", "n", "k", "s">> }

ConcurrentMessages ==
    { <<"h", "e", "l", "l", "o">>,
      <<"l", "i", "s", "t", " ", "m", "y", " ", "a", "s", "s", "i", "g", "n", "m", "e", "n", "t", "s">> }
\* str.lower() on one character (ASCII letters; every other character is kept)
LowerChar(c) ==
    IF \E p \in CasePairs : p[1] = c
    THEN (CHOOSE p \in CasePairs : p[1] = c)[2]
    ELSE c

\* message.lower()
Lower(s) == [i \in 1..Len(s) |-> LowerChar(s[i])]

\* Python's `k in s` for two strings: k occurs in s as a contiguous run
Contains(s, k) ==
    \E i \in 1..(Len(s) - Len(k) + 1) :
        \A j \in 1..Len(k) : s[i + j - 1] = k[j]

\* any(word in text for word in words)
AnyIn(words, text) == \E w \in words : Contains(text, w)

(* ---------------------------------------------------------------------- *)
(* The router's classifiers (pure functions of the message)                *)
(* ---------------------------------------------------------------------- *)

\* _detect_action_intent with the call to lower() left out
DetectActionIntentCaseSensitive(message) == AnyIn(action_keywords, message)

\* IntelligentChatbot._detect_action_intent
DetectActionIntent(message) == AnyIn(action_keywords, Lower(message))

\* _route_to_agent with the assignment branch tested before the planner branch
RouteTargetAssignmentFirst(message) ==
    IF AnyIn(assignment_words, Lower(message)) THEN "assignment"
    ELSE IF AnyIn(planner_words, Lower(message)) THEN "planner"
    ELSE "default"

\* IntelligentChatbot._route_to_agent: which responder the if/elif chain picks
RouteTarget(message) ==
    IF AnyIn(planner_words, Lower(message)) THEN "planner"
    ELSE IF AnyIn(assignment_words, Lower(message)) THEN "assignment"
    ELSE "default"

\* A piece of reply text: the template it is (one element that is no
\* character), then what was spliced into it
Text(kind, arg) == <<kind>> \o arg

\* Python's None where a name is expected, and what an f-string makes of it
None == "<None>"
Format(v) == IF v = None THEN "None" ELSE v

\* dict.get(key, default) on a document
Get(doc, key, default) == IF key \in DOMAIN doc THEN doc[key] ELSE default

\* {} : the empty dict
EmptyDict == [k \in {} |-> None]

\* d[key] = value
Put(d, key, value) ==
    [k \in DOMAIN d \cup {key} |-> IF k = key THEN value ELSE d[k]]

\* context.get('user', {}).get('name', default)
ContextUserName(context, default) ==
    Get(Get(context, "user", EmptyDict), "name", default)

\* _get_rule_based_response with the help test moved ahead of the greeting test
RuleBasedResponseHelpFirst(message, context) ==
    LET message_lower == Lower(message) IN
    IF Contains(message_lower, w_help) THEN Text("help", <<>>)
    ELSE IF AnyIn(greetings, message_lower)
    THEN Text("greeting", <<Format(ContextUserName(context, "there"))>>)
    ELSE IF AnyIn(course_words, message_lower) THEN Text("course", <<>>)
    ELSE IF Contains(message_lower, w_event) THEN Text("event", <<>>)
    ELSE Text("default", message)

\* IntelligentChatbot._get_rule_based_response
RuleBasedResponse(message, context) ==
    LET message_lower == Lower(message) IN
    IF AnyIn(greetings, message_lower)
    THEN Text("greeting", <<Format(ContextUserName(context, "there"))>>)
    ELSE IF Contains(message_lower, w_help) THEN Text("help", <<>>)
    ELSE IF AnyIn(course_words, message_lower) THEN Text("course", <<>>)
    ELSE IF Contains(message_lower, w_event) THEN Text("event", <<>>)
    ELSE Text("default", message)

(* ---------------------------------------------------------------------- *)
(* Values                                                                  *)
(* ---------------------------------------------------------------------- *)

\* Python's None where text or a conversation id is expected
Null == <<"<None>">>

\* an Optional[List]: None, or a list
NoneList == [none |-> TRUE, items |-> <<>>]
List(items) == [none |-> FALSE, items |-> items]

\* Python's None where a dict is expected
NullDict == [k \in {"<None>"} |-> None]

\* a message argument that is a list, not a str: it can be sliced and
\* formatted, and has no lower()
ListMessage == <<"<list>">>

IsText(message) == message \notin {Null, ListMessage}

\* conversation_id not supplied (None) or supplied empty: both are falsy
NoConversationId == <<>>

(* ---------------------------------------------------------------------- *)
(* Responders, as far as the router sees them                              *)
(* ---------------------------------------------------------------------- *)

\* StudentAssignmentManagerAgent._detect_action_type
DetectActionType(query) ==
    LET query_lower == Lower(query) IN
    IF AnyIn(list_words, query_lower) THEN "list_assignments"
    ELSE IF AnyIn(generate_words, query_lower) THEN "generate_content"
    ELSE IF AnyIn(help_words, query_lower) THEN "get_help"
    ELSE "general"

\* format_response reporting failure when an action entry failed
FormatResponseFlaggingErrors(agent_name, response, actions, analysis, data, recommendations) ==
    [success |-> \/ actions.none
                 \/ \A i \in 1..Len(actions.items) : actions.items[i].success,
     agent_name |-> agent_name,
     response |-> response,
     actions_performed |-> IF actions.none THEN <<>> ELSE actions.items,
     analysis |-> analysis,
     data |-> data,
     recommendations |-> recommendations,
     timestamp |-> "utcnow"]

\* BaseAgent.format_response: `actions or []`, the other fields as passed
FormatResponse(agent_name, response, actions, analysis, data, recommendations) ==
    [success |-> TRUE,
     agent_name |-> agent_name,
     response |-> response,
     actions_performed |-> IF actions.none THEN <<>> ELSE actions.items,
     analysis |-> analysis,
     data |-> data,
     recommendations |-> recommendations,
     timestamp |-> "utcnow"]

\* one entry of actions_performed
ActionEntry(type, success) == [type |-> type, success |-> success]

(* ---------------------------------------------------------------------- *)
(* Bounds and program constants                                            *)
(* ---------------------------------------------------------------------- *)

NumSlots == 2          \* requests in flight at once
MaxRequests == 2       \* requests issued by concurrent clients
MaxClears == 1         \* calls of the clear-history endpoint
SingleRequests == 1    \* requests issued by a client that asks once
FollowUpRequests == 2  \* requests issued by a client continuing a conversation
MaxClock == 1          \* seconds the wall clock advances
PriorExchanges == 5    \* exchanges a conversation may hold before the service starts

VoiceBudget == 500     \* text[:500]
ListCap == 10          \* prioritized[:10]
HistoryWindow == 10    \* conv.get("messages", [])[-10:]
PromptTurns == 6       \* history[-6:] (openai, anthropic)
GeminiPromptTurns == 4 \* history[-4:] (gemini)

Slots == 1..NumSlots
Callers == {"u1", "u2"}
AiTypes == {"None", "openai", "gemini", "anthropic"}
SuppliedIds == {<<"c1">>}
FollowUpIds == {<<"c1">>, <<"c2">>}

\* the users collection (nothing in this service writes to it):
\* u1 has a full profile, u3 a document without a name, u2 no document
users ==
    { [_id |-> "u1", name |-> "Asha", role |-> "student",
       department |-> "CSE", year |-> "2"],
      [_id |-> "u3", role |-> "student"] }

\* the assignments collection in find() order (nothing in this service
\* writes to it); dueDate in days from the start of the run
assignments ==
    << [userId |-> "u1", title |-> "essay", status |-> "pending",
        dueDate |-> 1, priority |-> "low"],
       [userId |-> "u1", title |-> "lab", status |-> "pending",
        dueDate |-> 3, priority |-> "high"],
       [userId |-> "u1", title |-> "quiz", status |-> "pending", dueDate |-> -1],
       [userId |-> "u1", title |-> "reading", status |-> "completed",
        dueDate |-> -1, priority |-> "high"] >>

VARIABLES
    memory,                 \* settings.ENABLE_CONVERSATION_MEMORY
    ai_type,                \* IntelligentChatbot.ai_type ("None": no ai_client)
    db,                     \* mongodb_client.db: "None" or "connected"
    reachable,              \* whether an operation on the store succeeds now
    now,                    \* the wall clock, in whole seconds
    workload,               \* which requests the clients send in this behaviour
    last_saved,             \* per record, the exchange last saved to it
    conversations,          \* the conversations collection: key -> messages
    agent_logs,             \* the agent_logs collection
    agenticplans,           \* the agenticplans collection
    issued,                 \* requests issued so far
    clear_result,           \* what the clear-history endpoint last returned
    pc,                     \* where each request is in process_message
    request,                \* process_message's arguments
    conv_id,                \* its local conv_id (Null: not bound yet)
    conv,                   \* the messages of the document find_one gave it
    conversation_history,   \* its local conversation_history
    full_context,           \* its local full_context
    action_needed,          \* its local action_needed
    response_data,          \* its local response_data
    response_text,          \* its local response_text
    result,                 \* what process_message returned
    lookup,                 \* how the profile lookup of the request ended
    store_faults,           \* which of its conversation-store operations raised
    voice_result,           \* what process_voice_query returned
    provider_calls,         \* the outcomes of its calls of the completion provider
    agent_calls,            \* per generate_ai_response call of its responder, the same
    sent,                   \* what it last sent to the completion provider
    sample,                 \* a message handed to a classifier on its own
    verdict                 \* what the classifier returned

storeVars == <<conversations, agent_logs, agenticplans, last_saved>>
envVars == <<memory, ai_type, db, reachable, now, workload>>
localVars == <<pc, request, conv_id, conv, conversation_history, full_context,
               action_needed, response_data, response_text, result,
               lookup, store_faults, voice_result, provider_calls,
               agent_calls, sent>>
textVars == <<sample, verdict>>
vars == <<envVars, storeVars, issued, clear_result, localVars, textVars>>

(* ---------------------------------------------------------------------- *)
(* The conversation store                                                  *)
(* ---------------------------------------------------------------------- *)

\* one element of a record's messages array; ex names the exchange (the
\* request) that wrote it, standing for its timestamp
Turn(role, content, ex) == [role |-> role, content |-> content, ex |-> ex]

\* seq[-n:]
LastN(seq, n) ==
    IF Len(seq) <= n THEN seq ELSE SubSeq(seq, Len(seq) - n + 1, Len(seq))

\* seq[:n]
FirstN(seq, n) ==
    IF Len(seq) <= n THEN seq ELSE SubSeq(seq, 1, n)

\* MongoDBClient.get_collection: raises when the database is not connected
GetCollectionRaises == db = "None"

\* an operation on a collection raises: no collection, or the store is down
StoreRaises == GetCollectionRaises \/ ~reachable

\* a find_one filter that leaves conversation_id out
MatchingUserOnly(user_id, cid) ==
    {k \in DOMAIN conversations : k[1] = user_id}

\* the records matching {"user_id": user_id, "conversation_id": conv_id}
Matching(user_id, cid) ==
    {k \in DOMAIN conversations : k[1] = user_id /\ k[2] = cid}

\* the window cut from the wrong end
WindowOldest(messages) == FirstN(messages, HistoryWindow)

\* conv.get("messages", [])[-10:]
Window(messages) == LastN(messages, HistoryWindow)

\* conversations.find_one(...) inside _get_conversation_history: the messages
\* of the document found; <<>> when memory is off, the store raises or
\* there is no such document
FindConversation(user_id, cid) ==
    IF memory /\ ~StoreRaises /\ Matching(user_id, cid) # {}
    THEN conversations[CHOOSE k \in Matching(user_id, cid) : TRUE]
    ELSE <<>>

\* stands for an exception leaving _get_conversation_history (the code lets
\* none out)
HistoryRaised == <<[role |-> "<raised>", content |-> <<>>, ex |-> 0]>>

\* _get_conversation_history without its try/except
GetConversationHistoryUnguarded(user_id, cid) ==
    IF memory /\ StoreRaises THEN HistoryRaised
    ELSE Window(FindConversation(user_id, cid))

\* IntelligentChatbot._get_conversation_history
GetConversationHistory(user_id, cid) ==
    Window(FindConversation(user_id, cid))

\* the two turns of one exchange, pushed with the assistant turn first
ExchangeReversed(message, response, ex) ==
    <<Turn("assistant", response, ex), Turn("user", message, ex)>>

\* the $each list of _save_to_history
Exchange(message, response, ex) ==
    <<Turn("user", message, ex), Turn("assistant", response, ex)>>

\* an update that sets the messages instead of pushing onto them
PushEachOverwrite(store, key, turns) ==
    [k \in DOMAIN store \cup {key} |-> IF k = key THEN turns ELSE store[k]]

\* update_one(filter, {"$push": {"messages": {"$each": turns}}}, upsert=True)
\* as one atomic update of the store
PushEach(store, key, turns) ==
    [k \in DOMAIN store \cup {key} |->
        IF k = key
        THEN (IF key \in DOMAIN store THEN store[key] ELSE <<>>) \o turns
        ELSE store[k]]

\* delete_many({}) in place of delete_many({"user_id": user_id})
DeleteEverything(store, user_id) == [k \in {} |-> <<>>]

\* delete_many({"user_id": user_id})
DeleteMany(store, user_id) ==
    [k \in {j \in DOMAIN store : j[1] # user_id} |-> store[k]]

(* ---------------------------------------------------------------------- *)
(* Initial state                                                           *)
(* ---------------------------------------------------------------------- *)

\* a conversation written by earlier runs of the service: n exchanges,
\* numbered -n .. -1
PriorConversation(n) ==
    [i \in 1..(2 * n) |->
        IF i % 2 = 1
        THEN Turn("user", <<"h", "i">>, ((i + 1) \div 2) - n - 1)
        ELSE Turn("assistant", <<"ai">>, (i \div 2) - n - 1)]

EmptyStore == [k \in {} |-> <<>>]

\* what earlier runs left: a long conversation and a short one of caller u1
PriorStore ==
    [k \in {<<"u1", <<"c1">>>>, <<"u1", <<"c2">>>>} |->
        IF k[2] = <<"c1">>
        THEN PriorConversation(PriorExchanges)
        ELSE PriorConversation(1)]

NoRequest ==
    [message |-> <<>>, user_id |-> "", context |-> EmptyDict,
     conversation_id |-> NoConversationId, channel |-> "chat", ex |-> 0]

NoResult == [k \in {} |-> None]

\* the clear-history endpoint has not been called
NoCleared == [calls |-> 0, user_id |-> "", response |-> NoResult]

NoPrompt == [system |-> <<>>, messages |-> <<>>]

InitLocals ==
    /\ pc = [p \in Slots |-> "idle"]
    /\ request = [p \in Slots |-> NoRequest]
    /\ conv_id = [p \in Slots |-> Null]
    /\ conv = [p \in Slots |-> <<>>]
    /\ conversation_history = [p \in Slots |-> <<>>]
    /\ full_context = [p \in Slots |-> EmptyDict]
    /\ action_needed = [p \in Slots |-> FALSE]
    /\ response_data = [p \in Slots |-> EmptyDict]
    /\ response_text = [p \in Slots |-> <<>>]
    /\ result = [p \in Slots |-> NoResult]
    /\ lookup = [p \in Slots |-> "none"]
    /\ store_faults = [p \in Slots |-> {}]
    /\ voice_result = [p \in Slots |-> NoResult]
    /\ provider_calls = [p \in Slots |-> <<>>]
    /\ agent_calls = [p \in Slots |-> <<>>]
    /\ sent = [p \in Slots |-> NoPrompt]

\* Who sends what. "single": one request of any kind, under every
\* configuration, with a store that may fail. "follow_up": one client going
\* on with a conversation, which may be an old one. "concurrent": clients
\* whose requests overlap while the clock runs, on a working store with
\* memory on.
Workloads == {"single", "follow_up", "concurrent"}

Init ==
    /\ workload \in Workloads
    /\ IF workload = "single"
       THEN /\ memory \in BOOLEAN
            /\ ai_type \in AiTypes
            /\ db \in {"None", "connected"}
            /\ conversations = EmptyStore
       ELSE IF workload = "follow_up"
       THEN /\ memory = TRUE
            /\ ai_type \in AiTypes
            /\ db = "connected"
            /\ conversations \in {EmptyStore, PriorStore}
       ELSE /\ memory = TRUE
            /\ ai_type \in {"None", "openai"}
            /\ db = "connected"
            /\ conversations = EmptyStore
    /\ reachable = TRUE
    /\ now = 0
    /\ agent_logs = <<>>
    /\ agenticplans = <<>>
    /\ last_saved = EmptyStore
    /\ issued = 0
    /\ clear_result = NoCleared
    /\ InitLocals
    /\ sample = <<>>
    /\ verdict = <<>>

(* ---------------------------------------------------------------------- *)
(* The voice adapter's text transform                                      *)
(* ---------------------------------------------------------------------- *)

\* the bullet character U+2022, one character of a text
Bullet == "<bullet>"

\* how many characters equal to text[i] stand directly before it
RunBefore(text, i) ==
    CHOOSE m \in 0..(i - 1) :
        /\ \A k \in 1..m : text[i - k] = text[i]
        /\ (m = i - 1 \/ text[i - m - 1] # text[i])

\* how many characters equal to text[i] stand directly after it
RunAfter(text, i) ==
    CHOOSE m \in 0..(Len(text) - i) :
        /\ \A k \in 1..m : text[i + k] = text[i]
        /\ (m = Len(text) - i \/ text[i + m + 1] # text[i])

\* whether str.replace(old, "") leaves text[i] standing, old being one
\* character repeated: the scan from the left takes Len(old) characters at
\* a time out of each run of that character, from the start of the run
Stays(text, old, i) ==
    \/ text[i] # old[1]
    \/ LET run == RunBefore(text, i) + 1 + RunAfter(text, i)
       IN  RunBefore(text, i) >= (run \div Len(old)) * Len(old)

\* str.replace(old, "")
Remove(text, old) ==
    LET kept == SelectSeq([i \in 1..Len(text) |-> i],
                          LAMBDA i : Stays(text, old, i))
    IN  [j \in 1..Len(kept) |-> text[kept[j]]]

\* the five replace calls of _format_for_voice, in the order of the code
StripMarkup(text) ==
    LET stars == Remove(text, <<"*", "*">>)
        hashes == Remove(stars, <<"#", "#">>)
        hashes3 == Remove(hashes, <<"#", "#", "#">>)
        bullets == Remove(hashes3, <<Bullet>>)
    IN  Remove(bullets, <<"-">>)

\* "... Would you like more details?"
ContinuationPrompt ==
    <<".", ".", ".", " ", "W", "o", "u", "l", "d", " ", "y", "o", "u", " ", "l", "i", "k", "e", " ", "m", "o", "r", "e", " ", "d", "e", "t", "a", "i", "l", "s", "?">>

\* the cut made one character early
FormatForVoiceCutEarly(text) ==
    LET stripped == StripMarkup(text) IN
    IF Len(stripped) >= VoiceBudget
    THEN SubSeq(stripped, 1, VoiceBudget - 1) \o ContinuationPrompt
    ELSE stripped

\* VoiceAssistant._format_for_voice
FormatForVoice(text) ==
    LET stripped == StripMarkup(text) IN
    IF Len(stripped) > VoiceBudget
    THEN SubSeq(stripped, 1, VoiceBudget) \o ContinuationPrompt
    ELSE stripped

(* ---------------------------------------------------------------------- *)
(* process_message, one action per stretch between two awaits              *)
(* ---------------------------------------------------------------------- *)

\* f"{user_id}_{int(datetime.now().timestamp())}"
GeneratedId(user_id, seconds) == <<user_id, "_", ToString(seconds)>>

\* conversation_id or f"{user_id}_{...}"
ResolveConversationId(conversation_id, user_id, seconds) ==
    IF conversation_id # NoConversationId
    THEN conversation_id
    ELSE GeneratedId(user_id, seconds)

\* the except branch that reports conversation_id None whatever was bound
FailureResultNoId(cid) ==
    [success |-> FALSE,
     response |-> <<"apology">>,
     conversation_id |-> Null,
     timestamp |-> "utcnow"]

\* the except branch of process_message; cid is Null while conv_id is unbound
FailureResult(cid) ==
    [success |-> FALSE,
     response |-> <<"apology">>,
     conversation_id |-> cid,
     timestamp |-> "utcnow"]

\* the requests the clients send
Messages ==
    IF workload = "single" THEN SequentialMessages \cup {Null, ListMessage}
    ELSE IF workload = "follow_up" THEN FollowUpMessages
    ELSE ConcurrentMessages

ConversationIds ==
    IF workload = "single" THEN SuppliedIds \cup {NoConversationId}
    ELSE IF workload = "follow_up" THEN FollowUpIds
    ELSE {NoConversationId}

\* u3 has a user document without a name, u2 has no user document
Senders ==
    IF workload = "follow_up" THEN {"u1"}
    ELSE IF workload = "single" THEN Callers \cup {"u3"}
    ELSE Callers

MaySend(p) ==
    IF workload = "single" THEN p = 1 /\ issued < SingleRequests
    ELSE IF workload = "follow_up" THEN p = 1 /\ issued < FollowUpRequests
    ELSE issued < MaxRequests

\* process_message is called: lines 64-67, up to the first await.
\* message[:50] raises on a message that cannot be sliced.
ProcessMessage(p) ==
    /\ pc[p] = "idle"
    /\ MaySend(p)
    /\ \E message \in Messages, user_id \in Senders,
          conversation_id \in ConversationIds :
        /\ issued' = issued + 1
        /\ UNCHANGED clear_result
        /\ request' = [request EXCEPT ![p] =
               [message |-> message, user_id |-> user_id,
                context |-> EmptyDict, conversation_id |-> conversation_id,
                channel |-> "chat", ex |-> issued + 1]]
        /\ IF message = Null
           THEN /\ result' = [result EXCEPT ![p] = FailureResult(Null)]
                /\ pc' = [pc EXCEPT ![p] = "done"]
                /\ UNCHANGED conv_id
           ELSE /\ conv_id' = [conv_id EXCEPT ![p] =
                       ResolveConversationId(conversation_id, user_id, now)]
                /\ pc' = [pc EXCEPT ![p] = "history"]
                /\ UNCHANGED result
    /\ UNCHANGED <<voice_result, envVars, storeVars, textVars, conv, conversation_history,
                   full_context, action_needed, response_data, response_text,
                   lookup,
                   store_faults, provider_calls,
                   agent_calls, sent>>

\* line 68: await self._get_conversation_history(user_id, conv_id)
ReadHistory(p) ==
    /\ pc[p] = "history"
    /\ conv' = [conv EXCEPT ![p] =
           FindConversation(request[p].user_id, conv_id[p])]
    /\ store_faults' = [store_faults EXCEPT ![p] =
           IF memory /\ StoreRaises THEN @ \cup {"read"} ELSE @]
    /\ LET history == GetConversationHistory(request[p].user_id, conv_id[p])
       IN  IF history = HistoryRaised
           THEN /\ result' = [result EXCEPT ![p] = FailureResult(conv_id[p])]
                /\ pc' = [pc EXCEPT ![p] = "done"]
                /\ UNCHANGED conversation_history
           ELSE /\ conversation_history' =
                       [conversation_history EXCEPT ![p] = history]
                /\ pc' = [pc EXCEPT ![p] = "context"]
                /\ UNCHANGED result
    /\ UNCHANGED <<voice_result, envVars, storeVars, textVars, issued, clear_result, request, conv_id,
                   full_context, action_needed, response_data, response_text,
                   lookup, provider_calls,
                   agent_calls, sent>>

\* users.find_one({"_id": user_id})
FindUser(user_id) == {u \in users : u._id = user_id}

\* the profile copied into the context: user.get(...) of four fields
Profile(user) ==
    [name |-> Get(user, "name", None),
     role |-> Get(user, "role", None),
     department |-> Get(user, "department", None),
     year |-> Get(user, "year", None)]

\* how the lookup in _gather_context ends
LookupOutcome(user_id) ==
    IF StoreRaises THEN "raised"
    ELSE IF FindUser(user_id) = {} THEN "no_document"
    ELSE "found"

\* _gather_context without its try/except: None when the lookup raises
GatherContextUnguarded(user_id, additional_context) ==
    IF StoreRaises THEN NullDict
    ELSE LET withUser ==
                 IF FindUser(user_id) = {} THEN additional_context
                 ELSE Put(additional_context, "user",
                          Profile(CHOOSE u \in FindUser(user_id) : TRUE))
         IN Put(withUser, "timestamp", "strftime")

\* IntelligentChatbot._gather_context; NullDict stands for an exception
\* leaving the function (the code lets none out)
GatherContext(user_id, additional_context) ==
    IF StoreRaises THEN additional_context
    ELSE LET withUser ==
                 IF FindUser(user_id) = {} THEN additional_context
                 ELSE Put(additional_context, "user",
                          Profile(CHOOSE u \in FindUser(user_id) : TRUE))
         IN Put(withUser, "timestamp", "strftime")

\* line 71: await self._gather_context(user_id, context)
Gather(p) ==
    /\ pc[p] = "context"
    /\ lookup' = [lookup EXCEPT ![p] = LookupOutcome(request[p].user_id)]
    /\ LET context == GatherContext(request[p].user_id, request[p].context) IN
       IF context = NullDict
       THEN /\ result' = [result EXCEPT ![p] = FailureResult(conv_id[p])]
            /\ pc' = [pc EXCEPT ![p] = "done"]
            /\ UNCHANGED full_context
       ELSE /\ full_context' = [full_context EXCEPT ![p] = context]
            /\ pc' = [pc EXCEPT ![p] = "classify"]
            /\ UNCHANGED result
    /\ UNCHANGED <<voice_result, store_faults, envVars, storeVars, textVars, issued, clear_result, request, conv_id,
                   conv, conversation_history, action_needed, response_data,
                   response_text, provider_calls,
                   agent_calls, sent>>

\* a classification that looks at the history read: action intent only in
\* a conversation that has no turns yet
ClassifyWithHistory(p) ==
    /\ pc[p] = "classify"
    /\ IsText(request[p].message)
    /\ LET intent == /\ DetectActionIntent(request[p].message)
                     /\ conversation_history[p] = <<>>
       IN  /\ action_needed' = [action_needed EXCEPT ![p] = intent]
           /\ pc' = [pc EXCEPT ![p] = IF intent THEN "route" ELSE "respond"]
    /\ UNCHANGED <<voice_result, envVars, storeVars, textVars, issued, clear_result,
                   request, conv_id, conv, conversation_history, full_context,
                   response_data, response_text, result, lookup,
                   store_faults, provider_calls,
                   agent_calls, sent>>

\* line 74: await self._detect_action_intent(message); message.lower()
\* raises on a message that is not a str
Classify(p) ==
    /\ pc[p] = "classify"
    /\ IF ~IsText(request[p].message)
       THEN /\ result' = [result EXCEPT ![p] = FailureResult(conv_id[p])]
            /\ pc' = [pc EXCEPT ![p] = "done"]
            /\ UNCHANGED action_needed
       ELSE /\ action_needed' = [action_needed EXCEPT ![p] =
                   DetectActionIntent(request[p].message)]
            /\ pc' = [pc EXCEPT ![p] =
                   IF DetectActionIntent(request[p].message)
                   THEN "route" ELSE "respond"]
            /\ UNCHANGED result
    /\ UNCHANGED <<voice_result, envVars, storeVars, textVars, issued, clear_result, request, conv_id,
                   conv, conversation_history, full_context, response_data,
                   response_text, lookup,
                   store_faults, provider_calls,
                   agent_calls, sent>>

(* ---------------------------------------------------------------------- *)
(* The responders the router dispatches to                                 *)
(* ---------------------------------------------------------------------- *)

\* get_fallback_response of each responder: the planner's text names the
\* query, the other three are fixed texts
FallbackResponse(agent_name, query) ==
    IF agent_name = "Study Planner Agent" THEN Text("planner_fallback", query)
    ELSE Text("fallback", <<agent_name>>)

\* what the completion provider does with one request: it raises, it
\* returns prose, or it returns a JSON analysis
ProviderReply(kind, analysis) == [kind |-> kind, analysis |-> analysis]

\* BaseAgent.generate_ai_response: the text it returns and the outcomes of
\* the provider invocations it made. Without a client there is none; an
\* invocation that raises is answered by the fallback text.
GenerateAiResponse(agent_name, prompt, reply) ==
    IF ai_type = "None"
    THEN [text |-> FallbackResponse(agent_name, prompt),
          parsed |-> <<>>, calls |-> <<>>]
    ELSE IF reply.kind = "raised"
    THEN [text |-> FallbackResponse(agent_name, prompt),
          parsed |-> <<>>, calls |-> <<"raised">>]
    ELSE [text |-> Text("ai", <<>>),
          parsed |-> IF reply.kind = "analysis" THEN <<reply.analysis>>
                     ELSE <<>>,
          calls |-> <<"returned">>]

\* what the provider may do with a responder's request
ProviderReplies ==
    { ProviderReply("raised", NullDict), ProviderReply("prose", NullDict) }

\* how StudentStudyPlannerAgent.process can end: the plan is built, or a
\* step raises (int() of a duration the provider worded freely) and the
\* except branch answers. Without a provider the analysis is the fixed one.
PlannerOutcomes ==
    IF ai_type = "None" THEN {"created"} ELSE {"created", "error"}

\* StudentStudyPlannerAgent.process: the envelope it returns
PlannerEnvelope(query, outcome) ==
    IF outcome = "created"
    THEN FormatResponse("Study Planner Agent", Text("plan_created", query),
             List(<<ActionEntry("study_plan_created", TRUE),
                    ActionEntry("materials_found", TRUE)>>),
             [goal_type |-> "general_study"],
             [goal |-> query],
             List(<<"Practice regularly">>))
    ELSE FormatResponse("Study Planner Agent", Text("planner_fallback", query),
             List(<<ActionEntry("error", FALSE)>>), NullDict, NullDict,
             NoneList)

\* {"high": 0, "medium": 1, "low": 2}.get(x.get("priority", "medium"), 1)
PriorityRank(a) ==
    LET priority == Get(a, "priority", "medium") IN
    IF priority = "high" THEN 0
    ELSE IF priority = "low" THEN 2
    ELSE 1

\* datetime.fromisoformat(a.get("dueDate", datetime.now().isoformat()))
DueDate(a) == Get(a, "dueDate", now)

\* a sort key that puts the priority first
SortKeyLessPriorityFirst(a, b) ==
    \/ PriorityRank(a) < PriorityRank(b)
    \/ PriorityRank(a) = PriorityRank(b) /\ DueDate(a) < DueDate(b)

\* the order of the sort keys (due date, priority rank)
SortKeyLess(a, b) ==
    \/ DueDate(a) < DueDate(b)
    \/ DueDate(a) = DueDate(b) /\ PriorityRank(a) < PriorityRank(b)

\* sorted(pending, key=...): a stable sort
Prioritized(pending) ==
    LET n == Len(pending)
        position(i) ==
            1 + Cardinality({j \in 1..n :
                    \/ SortKeyLess(pending[j], pending[i])
                    \/ ~SortKeyLess(pending[i], pending[j]) /\ j < i})
    IN  [k \in 1..n |-> pending[CHOOSE i \in 1..n : position(i) = k]]

\* [a for a in assignments if a.get("status") == status]
WithStatus(found, status) ==
    SelectSeq(found, LAMBDA a : Get(a, "status", None) = status)

\* _list_assignments without its `if not assignments` branch
ListAssignmentsAlwaysDashboard(found) ==
    LET pending == WithStatus(found, "pending") IN
    FormatResponse("Assignment Manager Agent", Text("dashboard", <<>>),
        List(<<ActionEntry("assignments_analyzed", TRUE)>>),
        [total |-> Len(found), pending |-> Len(pending)],
        [assignments |-> FirstN(Prioritized(pending), ListCap)],
        NoneList)

\* StudentAssignmentManagerAgent._list_assignments on the documents found.
\* An item with no dueDate is given the clock's reading, and counts as
\* overdue only if the clock has moved on when it is compared.
ListAssignments(found) ==
    LET name == "Assignment Manager Agent" IN
    IF found = <<>>
    THEN FormatResponse(name, Text("no_assignments", <<>>),
             NoneList, NullDict, [assignments |-> <<>>], NoneList)
    ELSE LET pending == WithStatus(found, "pending")
             completed == WithStatus(found, "completed")
             overdue == SelectSeq(pending, LAMBDA a : DueDate(a) < now)
             prioritized == Prioritized(pending)
         IN  FormatResponse(name, Text("dashboard", <<>>),
                 List(<<ActionEntry("assignments_analyzed", TRUE)>>),
                 [total |-> Len(found), pending |-> Len(pending),
                  completed |-> Len(completed), overdue |-> Len(overdue)],
                 [assignments |-> FirstN(prioritized, ListCap)],
                 NoneList)

\* BaseAgent.fetch_assignments: [] when the store raises
FetchAssignments(user_id) ==
    IF StoreRaises THEN <<>>
    ELSE SelectSeq(assignments, LAMBDA a : a.userId = user_id)

\* StudentAssignmentManagerAgent.process: the envelope it returns
AssignmentEnvelope(query, user_id) ==
    LET action_type == DetectActionType(query)
        name == "Assignment Manager Agent"
    IN  IF action_type = "list_assignments"
        THEN ListAssignments(FetchAssignments(user_id))
        ELSE IF action_type = "generate_content"
        THEN FormatResponse(name, Text("content", <<>>),
                 List(<<ActionEntry("content_generated", TRUE)>>),
                 NullDict, NullDict, NoneList)
        ELSE IF action_type = "get_help"
        THEN FormatResponse(name, Text("assignment_help", <<>>),
                 List(<<ActionEntry("help_provided", TRUE)>>),
                 NullDict, NullDict, NoneList)
        ELSE FormatResponse(name, Text("guidance", <<>>), NoneList,
                 NullDict, NullDict, NoneList)

\* what one invocation of process comes to: the envelope returned, the
\* writes made to the store in order, and the provider invocations of each
\* generate_ai_response call
Outcome(envelope, writes, calls) ==
    [envelope |-> envelope, writes |-> writes, calls |-> calls]

\* StudentAssignmentManagerAgent.process: the sub-operations of generate
\* and help make one generate_ai_response call, no sub-operation writes
AssignmentProcess(query, user_id, reply) ==
    LET name == "Assignment Manager Agent"
        action_type == DetectActionType(query)
    IN  Outcome(AssignmentEnvelope(query, user_id), <<>>,
            IF action_type \in {"generate_content", "get_help"}
            THEN <<GenerateAiResponse(name, query, reply).calls>>
            ELSE <<>>)

\* the else branch of _route_to_agent: no responder is called
ClarificationReply ==
    [response |-> <<"clarify">>, actions_performed |-> <<>>]

\* lines 78-79: response_data = await self._route_to_agent(...), then
\* response_text = response_data.get("response", "Action completed!")
RouteToAgent(p) ==
    /\ pc[p] = "route"
    /\ LET message == request[p].message
           user_id == request[p].user_id
           target == RouteTarget(message)
       IN  \/ /\ target = "planner"
              /\ \E outcome \in PlannerOutcomes, reply \in ProviderReplies :
                   LET ai == GenerateAiResponse("Study Planner Agent",
                                                message, reply)
                   IN  /\ outcome = "error" => ai.calls = <<"returned">>
                       /\ agent_calls' = [agent_calls EXCEPT ![p] =
                              <<ai.calls>>]
                       /\ response_data' = [response_data EXCEPT ![p] =
                              PlannerEnvelope(message, outcome)]
                       /\ IF outcome = "created" /\ ~StoreRaises
                          THEN /\ agenticplans' = Append(agenticplans,
                                      [userId |-> user_id, goal |-> message])
                               /\ agent_logs' = Append(agent_logs,
                                      [agent_name |-> "Study Planner Agent",
                                       action_type |-> "create_study_plan",
                                       user_id |-> user_id])
                          ELSE UNCHANGED <<agenticplans, agent_logs>>
           \/ /\ target = "assignment"
              /\ \E reply \in ProviderReplies :
                   LET processed == AssignmentProcess(message, user_id, reply)
                   IN  /\ agent_calls' = [agent_calls EXCEPT ![p] =
                              processed.calls]
                       /\ response_data' = [response_data EXCEPT ![p] =
                              processed.envelope]
              /\ UNCHANGED <<agenticplans, agent_logs>>
           \/ /\ target = "default"
              /\ response_data' = [response_data EXCEPT ![p] =
                     ClarificationReply]
              /\ UNCHANGED <<agenticplans, agent_logs, agent_calls>>
    /\ response_text' = [response_text EXCEPT ![p] =
           Get(response_data'[p], "response", <<"Action completed!">>)]
    /\ pc' = [pc EXCEPT ![p] = "save"]
    /\ UNCHANGED <<voice_result, envVars, conversations, last_saved, textVars, issued, clear_result,
                   request, conv_id, conv, conversation_history,
                   full_context, action_needed, result,
                   lookup,
                   store_faults, provider_calls, sent>>

(* ---------------------------------------------------------------------- *)
(* The conversational path                                                 *)
(* ---------------------------------------------------------------------- *)

\* the f-string of the system prompt: name, role and time of the context
SystemPrompt(context) ==
    <<Format(ContextUserName(context, "Student")),
      Format(Get(Get(context, "user", EmptyDict), "role", "student")),
      Get(context, "timestamp", "now")>>

\* {"role": msg["role"], "content": msg["content"]}
PromptTurn(msg) == [role |-> msg.role, content |-> msg.content]

\* msg['role'].title()
Title(role) == IF role = "user" THEN "User" ELSE "Assistant"

\* how many turns of the history go into the prompt, by provider
PromptCap == IF ai_type = "gemini" THEN GeminiPromptTurns ELSE PromptTurns

\* the prompt built from the whole window, no cap
BuildPromptUncapped(message, history, context) ==
    [system |-> SystemPrompt(context),
     messages |-> [i \in 1..Len(history) |-> PromptTurn(history[i])]
                  \o <<[role |-> "user", content |-> message]>>]

\* what _generate_conversational_response hands to the provider: the system
\* prompt, the last turns of the history, then the current message
BuildPrompt(message, history, context) ==
    LET recent == LastN(history, PromptCap) IN
    [system |-> SystemPrompt(context),
     messages |->
        [i \in 1..Len(recent) |->
            IF ai_type = "gemini"
            THEN [role |-> Title(recent[i].role), content |-> recent[i].content]
            ELSE PromptTurn(recent[i])]
        \o <<[role |-> IF ai_type = "gemini" THEN "User" ELSE "user",
              content |-> message]>>]

\* _generate_conversational_response asking the provider again after a
\* failure, before it falls back
RespondRetrying(p) ==
    /\ pc[p] = "respond"
    /\ LET message == request[p].message
           fallback == RuleBasedResponse(message, full_context[p])
       IN  IF ai_type = "None"
           THEN /\ response_text' = [response_text EXCEPT ![p] = fallback]
                /\ UNCHANGED <<provider_calls, sent>>
           ELSE /\ sent' = [sent EXCEPT ![p] =
                       BuildPrompt(message, conversation_history[p],
                                   full_context[p])]
                /\ \E outcome \in {"returned", "raised"} :
                     /\ provider_calls' = [provider_calls EXCEPT ![p] =
                            IF outcome = "raised"
                            THEN @ \o <<"raised", "raised">>
                            ELSE Append(@, outcome)]
                     /\ response_text' = [response_text EXCEPT ![p] =
                            IF outcome = "returned" THEN <<"ai">>
                            ELSE fallback]
    /\ pc' = [pc EXCEPT ![p] = "save"]
    /\ UNCHANGED <<voice_result, envVars, storeVars, textVars, issued, clear_result, request, conv_id,
                   conv, conversation_history, full_context, action_needed,
                   response_data, result, lookup,
                   store_faults, agent_calls>>

\* lines 82-86: await self._generate_conversational_response(...)
Respond(p) ==
    /\ pc[p] = "respond"
    /\ LET message == request[p].message
           fallback == RuleBasedResponse(message, full_context[p])
       IN  IF ai_type = "None"
           THEN /\ response_text' = [response_text EXCEPT ![p] = fallback]
                /\ UNCHANGED <<provider_calls, sent>>
           ELSE /\ sent' = [sent EXCEPT ![p] =
                       BuildPrompt(message, conversation_history[p],
                                   full_context[p])]
                /\ \E outcome \in {"returned", "raised"} :
                     /\ provider_calls' = [provider_calls EXCEPT ![p] =
                            Append(@, outcome)]
                     /\ response_text' = [response_text EXCEPT ![p] =
                            IF outcome = "returned" THEN <<"ai">>
                            ELSE fallback]
    /\ pc' = [pc EXCEPT ![p] = "save"]
    /\ UNCHANGED <<voice_result, envVars, storeVars, textVars, issued, clear_result, request, conv_id,
                   conv, conversation_history, full_context, action_needed,
                   response_data, result, lookup,
                   store_faults, agent_calls>>

(* ---------------------------------------------------------------------- *)
(* Saving the exchange and returning                                       *)
(* ---------------------------------------------------------------------- *)

\* _save_to_history as two updates, one turn each, with an await between
SaveToHistoryTwoUpdates(p) ==
    LET key == <<request[p].user_id, conv_id[p]>>
        both == Exchange(request[p].message, response_text[p], request[p].ex)
    IN  \/ /\ pc[p] = "save"
           /\ IF memory /\ ~StoreRaises
              THEN conversations' = PushEach(conversations, key, <<both[1]>>)
              ELSE UNCHANGED conversations
           /\ pc' = [pc EXCEPT ![p] = "save_second"]
        \/ /\ pc[p] = "save_second"
           /\ IF memory /\ ~StoreRaises
              THEN conversations' = PushEach(conversations, key, <<both[2]>>)
              ELSE UNCHANGED conversations
           /\ pc' = [pc EXCEPT ![p] = "return"]

\* _save_to_history writing back the messages it read at the start of the
\* call with its exchange added, instead of pushing onto the record
SaveToHistoryFromRead(p) ==
    /\ pc[p] = "save"
    /\ IF memory /\ ~StoreRaises
       THEN conversations' =
                PushEachOverwrite(conversations,
                    <<request[p].user_id, conv_id[p]>>,
                    conv[p] \o Exchange(request[p].message, response_text[p],
                                        request[p].ex))
       ELSE UNCHANGED conversations
    /\ pc' = [pc EXCEPT ![p] = "return"]

\* IntelligentChatbot._save_to_history: one update_one, or nothing when
\* memory is off or the store raises (the exception is logged and dropped)
SaveToHistory(p) ==
    /\ pc[p] = "save"
    /\ IF memory /\ ~StoreRaises
       THEN conversations' =
                PushEach(conversations, <<request[p].user_id, conv_id[p]>>,
                    Exchange(request[p].message, response_text[p],
                             request[p].ex))
       ELSE UNCHANGED conversations
    /\ pc' = [pc EXCEPT ![p] = "return"]

\* the dict process_message returns on success (lines 91-98)
SuccessResult(p) ==
    [success |-> TRUE,
     response |-> response_text[p],
     conversation_id |-> conv_id[p],
     context |-> full_context[p],
     actions_taken |->
        IF action_needed[p]
        THEN Get(response_data[p], "actions_performed", <<>>)
        ELSE <<>>,
     timestamp |-> "utcnow"]

\* line 89: await self._save_to_history(user_id, conv_id, message, response_text)
Save(p) ==
    /\ SaveToHistory(p)
    /\ last_saved' =
          IF conversations' # conversations
          THEN Put(last_saved, <<request[p].user_id, conv_id[p]>>,
                   <<request[p].message, response_text[p]>>)
          ELSE last_saved
    /\ store_faults' = [store_faults EXCEPT ![p] =
           IF memory /\ StoreRaises THEN @ \cup {"append"} ELSE @]
    /\ UNCHANGED <<voice_result, envVars, agent_logs, agenticplans, textVars, issued, clear_result,
                   request, conv_id, conv, conversation_history, full_context,
                   action_needed, response_data, response_text, result,
                   lookup, provider_calls,
                   agent_calls, sent>>

\* lines 91-98: the result is built and returned
Return(p) ==
    /\ pc[p] = "return"
    /\ result' = [result EXCEPT ![p] = SuccessResult(p)]
    /\ pc' = [pc EXCEPT ![p] = "done"]
    /\ UNCHANGED <<voice_result, envVars, storeVars, textVars, issued, clear_result, request, conv_id,
                   conv, conversation_history, full_context, action_needed,
                   response_data, response_text, lookup,
                   store_faults, provider_calls,
                   agent_calls, sent>>

\* the context process_voice_query hands to process_message (lines 33-35)
VoiceContext ==
    [input_type |-> "voice", requires_concise_response |-> TRUE]

\* what process_voice_query returns when an exception reaches its except
VoiceFailure ==
    [success |-> FALSE, response |-> <<"voice_apology">>,
     voice_enabled |-> TRUE, timestamp |-> "utcnow"]

\* process_voice_query passing on the router's own success flag
VoiceEnvelopeRelayingSuccess(router_result) ==
    [success |-> Get(router_result, "success", TRUE),
     response |-> FormatForVoice(Get(router_result, "response", <<>>)),
     actions_taken |-> Get(router_result, "actions_taken", <<>>),
     voice_enabled |-> TRUE,
     timestamp |-> "utcnow"]

\* what process_voice_query returns from the router's result (lines 45-53)
VoiceEnvelope(router_result) ==
    [success |-> TRUE,
     response |-> FormatForVoice(Get(router_result, "response", <<>>)),
     actions_taken |-> Get(router_result, "actions_taken", <<>>),
     voice_enabled |-> TRUE,
     timestamp |-> "utcnow"]

\* process_voice_query is called: query[:50] raises on a query that cannot
\* be sliced; otherwise process_message runs up to its first await, with
\* no conversation id
ProcessVoiceQuery(p) ==
    /\ pc[p] = "idle"
    /\ MaySend(p)
    /\ workload = "single"
    /\ \E query \in Messages, user_id \in Senders :
        /\ issued' = issued + 1
        /\ UNCHANGED clear_result
        /\ request' = [request EXCEPT ![p] =
               [message |-> query, user_id |-> user_id,
                context |-> VoiceContext,
                conversation_id |-> NoConversationId,
                channel |-> "voice", ex |-> issued + 1]]
        /\ IF query = Null
           THEN /\ voice_result' = [voice_result EXCEPT ![p] = VoiceFailure]
                /\ pc' = [pc EXCEPT ![p] = "replied"]
                /\ UNCHANGED conv_id
           ELSE /\ conv_id' = [conv_id EXCEPT ![p] =
                       ResolveConversationId(NoConversationId, user_id, now)]
                /\ pc' = [pc EXCEPT ![p] = "history"]
                /\ UNCHANGED voice_result
    /\ UNCHANGED <<envVars, storeVars, textVars, conv, conversation_history,
                   full_context, action_needed, response_data, response_text,
                   result, lookup, store_faults, provider_calls,
                   agent_calls, sent>>

\* process_message has returned to process_voice_query (lines 44-53)
VoiceReturn(p) ==
    /\ pc[p] = "done"
    /\ request[p].channel = "voice"
    /\ voice_result' = [voice_result EXCEPT ![p] = VoiceEnvelope(result[p])]
    /\ pc' = [pc EXCEPT ![p] = "replied"]
    /\ UNCHANGED <<envVars, storeVars, textVars, issued, clear_result, request, conv_id,
                   conv, conversation_history, full_context, action_needed,
                   response_data, response_text, result, lookup,
                   store_faults, provider_calls,
                   agent_calls, sent>>

\* the reply has gone out; the coroutine and its locals are gone
Deliver(p) ==
    /\ \/ pc[p] = "done" /\ request[p].channel = "chat"
       \/ pc[p] = "replied"
    /\ pc' = [pc EXCEPT ![p] = "idle"]
    /\ request' = [request EXCEPT ![p] = NoRequest]
    /\ conv_id' = [conv_id EXCEPT ![p] = Null]
    /\ conv' = [conv EXCEPT ![p] = <<>>]
    /\ conversation_history' = [conversation_history EXCEPT ![p] = <<>>]
    /\ full_context' = [full_context EXCEPT ![p] = EmptyDict]
    /\ action_needed' = [action_needed EXCEPT ![p] = FALSE]
    /\ response_data' = [response_data EXCEPT ![p] = EmptyDict]
    /\ response_text' = [response_text EXCEPT ![p] = <<>>]
    /\ result' = [result EXCEPT ![p] = NoResult]
    /\ lookup' = [lookup EXCEPT ![p] = "none"]
    /\ store_faults' = [store_faults EXCEPT ![p] = {}]
    /\ voice_result' = [voice_result EXCEPT ![p] = NoResult]
    /\ provider_calls' = [provider_calls EXCEPT ![p] = <<>>]
    /\ agent_calls' = [agent_calls EXCEPT ![p] = <<>>]
    /\ sent' = [sent EXCEPT ![p] = NoPrompt]
    /\ UNCHANGED <<envVars, storeVars, textVars, issued, clear_result>>

\* what DELETE /api/chat/history/{user_id} returns when clear_history
\* returns, which it always does
ClearResponse == [success |-> TRUE, message |-> "Chat history cleared"]

\* clear_chat_history and IntelligentChatbot.clear_history: one
\* delete_many; an exception of get_collection or delete_many is logged
\* and dropped, and the endpoint answers as after a delete
ClearHistory(user_id) ==
    /\ clear_result.calls < MaxClears
    /\ IF StoreRaises
       THEN UNCHANGED <<conversations, last_saved>>
       ELSE /\ conversations' = DeleteMany(conversations, user_id)
            /\ last_saved' = DeleteMany(last_saved, user_id)
    /\ clear_result' = [calls |-> clear_result.calls + 1,
                        user_id |-> user_id,
                        response |-> ClearResponse]
    /\ UNCHANGED <<envVars, agent_logs, agenticplans, issued, localVars,
                   textVars>>

(* ---------------------------------------------------------------------- *)
(* The environment                                                         *)
(* ---------------------------------------------------------------------- *)

\* a second passes
Tick ==
    /\ workload = "concurrent"
    /\ now < MaxClock
    /\ now' = now + 1
    /\ UNCHANGED <<memory, ai_type, db, reachable, workload, storeVars,
                   issued, clear_result, localVars, textVars>>

\* the store goes down, or comes back
StoreFlips ==
    /\ db = "connected"
    /\ workload = "single"
    /\ reachable' = ~reachable
    /\ UNCHANGED <<memory, ai_type, db, now, workload, storeVars, issued, clear_result,
                   localVars, textVars>>

Next ==
    \/ \E p \in Slots : ProcessMessage(p)
    \/ \E p \in Slots : ProcessVoiceQuery(p)
    \/ \E p \in Slots : VoiceReturn(p)
    \/ \E p \in Slots : ReadHistory(p)
    \/ \E p \in Slots : Gather(p)
    \/ \E p \in Slots : Classify(p)
    \/ \E p \in Slots : RouteToAgent(p)
    \/ \E p \in Slots : Respond(p)
    \/ \E p \in Slots : Save(p)
    \/ \E p \in Slots : Return(p)
    \/ \E p \in Slots : Deliver(p)
    \/ \E user_id \in Senders : ClearHistory(user_id)
    \/ Tick
    \/ StoreFlips

Spec == Init /\ [][Next]_vars

(* ---------------------------------------------------------------------- *)
(* The classifiers on their own, over a larger set of messages             *)
(* ---------------------------------------------------------------------- *)

UpperChar(c) ==
    IF \E p \in CasePairs : p[2] = c
    THEN (CHOOSE p \in CasePairs : p[2] = c)[1]
    ELSE c

Upper(s) == [i \in 1..Len(s) |-> UpperChar(s[i])]

Capitalized(s) == [i \in 1..Len(s) |-> IF i = 1 THEN UpperChar(s[i]) ELSE s[i]]

\* one fragment, or two with a space between; as written, in capitals, or
\* with a capital first letter
TextMessages ==
    LET plain == Fragments \cup
                 {a \o <<" ">> \o b : a \in Fragments, b \in Fragments}
    IN  plain \cup {Upper(m) : m \in plain} \cup {Capitalized(m) : m \in plain}

\* the contexts a rule-based reply is computed from
SampleContexts ==
    { EmptyDict,
      [user |-> [name |-> "Asha", role |-> "student",
                 department |-> "CSE", year |-> "2"]] }

InitText ==
    /\ memory = TRUE
    /\ ai_type = "None"
    /\ db = "connected"
    /\ reachable = TRUE
    /\ now = 0
    /\ workload = "single"
    /\ conversations = EmptyStore
    /\ agent_logs = <<>>
    /\ agenticplans = <<>>
    /\ last_saved = EmptyStore
    /\ issued = 0
    /\ clear_result = NoCleared
    /\ InitLocals
    /\ sample \in TextMessages
    /\ verdict = <<>>

Classified(fn, value) ==
    /\ verdict = <<>>
    /\ verdict' = <<fn, value>>
    /\ UNCHANGED <<envVars, storeVars, issued, clear_result, localVars, sample>>

DetectOnSample == Classified("detect", DetectActionIntent(sample))

RouteOnSample == Classified("route", RouteTarget(sample))

RuleOnSample ==
    \E context \in SampleContexts :
        Classified("rule", RuleBasedResponse(sample, context))

SubclassifyOnSample == Classified("action_type", DetectActionType(sample))

NextText ==
    \/ DetectOnSample
    \/ RouteOnSample
    \/ RuleOnSample
    \/ SubclassifyOnSample

SpecText == InitText /\ [][NextText]_vars

(* ---------------------------------------------------------------------- *)
(* Properties                                                              *)
(* ---------------------------------------------------------------------- *)

\* the record process_message works on
KeyOf(p) == <<request[p].user_id, conv_id[p]>>

\* the step in which request p reads its history
ReadStep(p) == pc[p] = "history" /\ pc'[p] = "context"

\* the step in which request p saves its exchange
SaveStep(p) == pc[p] = "save" /\ pc'[p] = "return"

\* C1: in every stored record, in every interleaving of the requests, the
\* user turn of an exchange is immediately followed by the assistant turn
\* of the same exchange: no other turn sits between the two.
C1_ExchangesNeverInterleave ==
    \A k \in DOMAIN conversations :
        LET m == conversations[k] IN
        \A i, j \in 1..Len(m) :
            (m[i].ex = m[j].ex /\ m[i].role = "user" /\ m[j].role = "assistant")
                => j = i + 1

\* two overlapping requests have both saved to one record: the exchange of
\* the request issued second is stored ahead of the first one's
C1_OverlappingSavesStored ==
    \E k \in DOMAIN conversations :
        /\ Len(conversations[k]) = 4
        /\ conversations[k][1].ex = 2
        /\ conversations[k][3].ex = 1

C3_FreshIdsDistinct ==
    \A p, q \in Slots :
        (/\ p # q
         /\ conv_id[p] # Null
         /\ conv_id[q] # Null
         /\ request[p].user_id = request[q].user_id
         /\ request[p].conversation_id = NoConversationId
         /\ request[q].conversation_id = NoConversationId)
        => conv_id[p] # conv_id[q]

\* the action vocabulary as the claim lists it
C4_Vocabulary ==
    { <<"c", "r", "e", "a", "t", "e">>,
      <<"g", "e", "n", "e", "r", "a", "t", "e">>,
      <<"m", "a", "k", "e">>,
      <<"s", "h", "o", "w", " ", "m", "e">>,
      <<"f", "i", "n", "d">>,
      <<"s", "e", "a", "r", "c", "h">>,
      <<"e", "n", "r", "o", "l", "l">>,
      <<"r", "e", "g", "i", "s", "t", "e", "r">>,
      <<"a", "d", "d">>,
      <<"s", "c", "h", "e", "d", "u", "l", "e">>,
      <<"p", "l", "a", "n">>,
      <<"l", "i", "s", "t", " ", "m", "y">>,
      <<"w", "h", "a", "t", " ", "a", "r", "e", " ", "m", "y">>,
      <<"g", "e", "t", " ", "m", "y">> }

\* two characters that are the same letter, whatever their case
SameLetter(a, b) ==
    a = b \/ <<a, b>> \in CasePairs \/ <<b, a>> \in CasePairs

\* k occurs in s as a contiguous run, case ignored
ContainsIgnoringCase(s, k) ==
    \E i \in 1..(Len(s) - Len(k) + 1) :
        \A j \in 1..Len(k) : SameLetter(s[i + j - 1], k[j])

\* C4: _detect_action_intent returns true exactly for the messages that
\* contain, case ignored and anywhere as a substring, a keyword of the
\* action vocabulary.
C4_ActionIntentIffKeyword ==
    (verdict # <<>> /\ verdict[1] = "detect")
        => (verdict[2] <=>
                \E k \in C4_Vocabulary : ContainsIgnoringCase(sample, k))

\* a message in capitals that holds a keyword inside a longer text was
\* classified as action intent
C4_CapitalsMatched ==
    /\ verdict = <<"detect", TRUE>>
    /\ sample = Upper(sample)
    /\ sample # Lower(sample)
    /\ sample \notin {Upper(k) : k \in C4_Vocabulary}

\* role names compared whatever their case ("User" for "user")
SameRole(a, b) == a = b \/ a = Title(b)

\* C5: whatever the length of the record read and whatever the provider, the
\* history turns sent to the provider are at most 6, they are the last
\* turns of the record as read, oldest first, and the current message
\* follows them.
C5_PromptHistoryCapped ==
    \A p \in Slots :
        sent[p] # NoPrompt =>
            LET msgs == sent[p].messages
                n == Len(msgs) - 1
                len == Len(conv[p])
            IN  /\ n <= 6
                /\ n <= len
                /\ \A i \in 1..n :
                       /\ msgs[i].content = conv[p][len - n + i].content
                       /\ SameRole(msgs[i].role, conv[p][len - n + i].role)
                /\ msgs[n + 1].content = request[p].message
                /\ SameRole(msgs[n + 1].role, "user")

\* a prompt was built from a record longer than the window: six turns of
\* history and the current message
C5_LongRecordPrompted ==
    \E p \in Slots :
        /\ Len(conv[p]) > HistoryWindow
        /\ Len(sent[p].messages) = PromptTurns + 1

\* the responder named in an envelope; "none" when no responder built it
Responder(data) == Get(data, "agent_name", "none")

\* the step in which request p is dispatched
RouteStep(p) == pc[p] = "route" /\ pc'[p] = "save"

\* C6 as stated: an action-intent message goes to the study planner when it
\* contains study, learning or schedule; otherwise to the assignment
\* manager when it contains assignment, homework or task; otherwise no
\* responder is called and the clarification reply comes back.
C6_RouteByNoun ==
    \A p \in Slots :
        (pc[p] = "save" /\ action_needed[p]) =>
            LET m == request[p].message
                planner == \E w \in { <<"s", "t", "u", "d", "y">>,
                                      <<"l", "e", "a", "r", "n", "i", "n", "g">>,
                                      <<"s", "c", "h", "e", "d", "u", "l", "e">> } :
                               ContainsIgnoringCase(m, w)
                assignment == \E w \in assignment_words :
                                  ContainsIgnoringCase(m, w)
            IN  IF planner
                THEN Responder(response_data[p]) = "Study Planner Agent"
                ELSE IF assignment
                THEN Responder(response_data[p]) = "Assignment Manager Agent"
                ELSE response_data[p] = ClarificationReply

\* the phrases of the first branch
C6_PlannerPhrases ==
    { <<"s", "t", "u", "d", "y", " ", "p", "l", "a", "n">>,
      <<"l", "e", "a", "r", "n", "i", "n", "g", " ", "p", "l", "a", "n">>,
      <<"s", "c", "h", "e", "d", "u", "l", "e">> }

\* C6, amended: an action-intent message goes to the study planner when it
\* contains study plan, learning plan or schedule; otherwise to the
\* assignment manager when it contains assignment, homework or task;
\* otherwise no responder is called, nothing is written, and the
\* clarification reply with an empty actions list comes back.
C6_RouteByPhrase ==
    [][\A p \in Slots :
          RouteStep(p) =>
            LET m == request[p].message
                planner == \E w \in C6_PlannerPhrases :
                               ContainsIgnoringCase(m, w)
                assignment == \E w \in assignment_words :
                                  ContainsIgnoringCase(m, w)
                data == response_data'[p]
            IN  IF planner
                THEN Responder(data) = "Study Planner Agent"
                ELSE IF assignment
                THEN Responder(data) = "Assignment Manager Agent"
                ELSE /\ DOMAIN data = {"response", "actions_performed"}
                     /\ data.response = <<"clarify">>
                     /\ data.actions_performed = <<>>
                     /\ UNCHANGED storeVars]_vars

\* an action-intent message that names study, but no study plan, was
\* answered with the clarification reply
C6_StudyWithoutPlan ==
    \E p \in Slots :
        /\ pc[p] = "save"
        /\ action_needed[p]
        /\ ContainsIgnoringCase(request[p].message, <<"s", "t", "u", "d", "y">>)
        /\ response_data[p] = ClarificationReply

\* C7: a call that an exception left returns exactly success=false, the
\* apology, the conversation id and a timestamp (no context, no
\* actions_taken); the id is the resolved one when the exception came after
\* it was resolved, and null when it came before.
C7_FailureEnvelope ==
    \A p \in Slots :
        pc[p] = "done" =>
            /\ ~IsText(request[p].message) => ~result[p].success
            /\ ~result[p].success =>
                  /\ DOMAIN result[p] =
                        {"success", "response", "conversation_id", "timestamp"}
                  /\ result[p].response = <<"apology">>
                  /\ result[p].conversation_id =
                        IF request[p].message = Null THEN Null
                        ELSE IF request[p].conversation_id # NoConversationId
                        THEN request[p].conversation_id
                        ELSE GeneratedId(request[p].user_id, now)

\* a call failed after its conversation id was resolved, and reports it
C7_FailedAfterResolution ==
    \E p \in Slots :
        /\ pc[p] = "done"
        /\ request[p].message = ListMessage
        /\ ~result[p].success
        /\ result[p].conversation_id = <<"c1">>

\* the turns of the exchange of request p anywhere in the store, as
\* <<record, position>> pairs
TurnsOf(p) ==
    { kv \in UNION { { <<k, i>> : i \in 1..Len(conversations[k]) } :
                       k \in DOMAIN conversations } :
        conversations[kv[1]][kv[2]].ex = request[p].ex }

\* C8: with memory on and the store reachable, a call that returns
\* success=true has by then appended exactly two turns to the record of its
\* caller and conversation id, the user turn with the incoming message and
\* then the assistant turn with the reply text it returns, on either path,
\* and the record is created when there was none.
C8_ExchangeAppended ==
    [][\A p \in Slots :
          /\ (SaveStep(p) /\ memory /\ ~StoreRaises) =>
                LET before == IF KeyOf(p) \in DOMAIN conversations
                              THEN conversations[KeyOf(p)] ELSE <<>>
                IN  /\ KeyOf(p) \in DOMAIN conversations'
                    /\ conversations'[KeyOf(p)] = before \o
                          << [role |-> "user",
                              content |-> request[p].message,
                              ex |-> request[p].ex],
                             [role |-> "assistant",
                              content |-> response_text[p],
                              ex |-> request[p].ex] >>
                    /\ \A k \in DOMAIN conversations \ {KeyOf(p)} :
                          /\ k \in DOMAIN conversations'
                          /\ conversations'[k] = conversations[k]
          /\ (pc'[p] = "done" /\ pc[p] # "done" /\ result'[p].success) =>
                /\ pc[p] = "return"
                /\ result'[p].response = response_text[p]
          /\ (pc'[p] = "return" /\ pc[p] # "return") => pc[p] = "save"
          /\ (request'[p] = request[p] /\ ~SaveStep(p)) =>
                Cardinality(TurnsOf(p))' <= Cardinality(TurnsOf(p))]_vars

\* a call on the action path returned success with its exchange as the
\* whole of a record that did not exist before
C8_RecordCreatedOnActionPath ==
    \E p \in Slots :
        /\ pc[p] = "done"
        /\ result[p].success
        /\ action_needed[p]
        /\ KeyOf(p) \in DOMAIN conversations
        /\ Len(conversations[KeyOf(p)]) = 2
        /\ conversations[KeyOf(p)][2].content = result[p].response
        /\ conversations[KeyOf(p)][2].ex = request[p].ex

\* the place of request p's message in the order of the rule-based checks
C9_Bucket(m) ==
    IF \E g \in greetings : ContainsIgnoringCase(m, g) THEN "greeting"
    ELSE IF ContainsIgnoringCase(m, <<"h", "e", "l", "p">>) THEN "help"
    ELSE IF \E w \in { <<"c", "o", "u", "r", "s", "e">>, <<"c", "l", "a", "s", "s">>, <<"s", "u", "b", "j", "e", "c", "t">> } :
                ContainsIgnoringCase(m, w)
    THEN "course"
    ELSE IF ContainsIgnoringCase(m, <<"e", "v", "e", "n", "t">>) THEN "event"
    ELSE "default"

\* C9: on the conversational path, with no provider configured or the
\* provider call raising, the reply is the rule-based one, chosen in the
\* order greeting, help, course/class/subject, event, and otherwise the
\* clarifying prompt echoing the message; the call returns success=true.
C9_RuleBasedFallback ==
    \A p \in Slots :
        ( /\ pc[p] \in {"save", "return", "done"}
          /\ IsText(request[p].message)
          /\ ~action_needed[p]
          /\ (ai_type = "None" \/ provider_calls[p] = <<"raised">>) ) =>
            /\ response_text[p][1] = C9_Bucket(request[p].message)
            /\ (C9_Bucket(request[p].message) = "default" =>
                    response_text[p] = <<"default">> \o request[p].message)
            /\ (pc[p] = "done" =>
                    /\ result[p].success
                    /\ result[p].response = response_text[p])

\* the provider raised on a message holding both a greeting and help, and
\* the call returned the greeting
C9_ProviderRaisedGreetingWins ==
    \E p \in Slots :
        /\ pc[p] = "done"
        /\ provider_calls[p] = <<"raised">>
        /\ ContainsIgnoringCase(request[p].message, <<"h", "e", "l", "p">>)
        /\ result[p].success
        /\ result[p].response[1] = "greeting"

\* C10: a failed profile lookup (store unreachable, lookup raising, or no
\* user document) never aborts the request: it is classified and answered,
\* and returns success=true with no profile in the context.
C10_LookupFailureTolerated ==
    \A p \in Slots :
        /\ (pc[p] \in {"classify", "route", "respond", "save", "return",
                        "done"} /\ lookup[p] \in {"raised", "no_document"}) =>
              "user" \notin DOMAIN full_context[p]
        /\ (pc[p] = "done" /\ IsText(request[p].message)) =>
              /\ result[p].success
              /\ result[p].response # <<>>
              /\ (lookup[p] \in {"raised", "no_document"} =>
                    "user" \notin DOMAIN result[p].context)

\* a call whose profile lookup raised returned success
C10_LookupRaisedAnswered ==
    \E p \in Slots :
        /\ pc[p] = "done"
        /\ lookup[p] = "raised"
        /\ result[p].success
        /\ result[p].response # <<>>

\* C11: a failing read or append of the conversation store is not
\* surfaced: after a failed read the history is empty, the reply is still
\* computed, and the call returns success=true with the resolved
\* conversation id, not the failure envelope.
C11_StoreFaultsNotSurfaced ==
    \A p \in Slots :
        /\ "read" \in store_faults[p] =>
              /\ conversation_history[p] = <<>>
              /\ pc[p] # "idle"
              /\ pc[p] = "done" => IsText(request[p].message) = result[p].success
        /\ (pc[p] = "done" /\ store_faults[p] # {}
                /\ IsText(request[p].message)) =>
              /\ DOMAIN result[p] =
                    {"success", "response", "conversation_id", "context",
                     "actions_taken", "timestamp"}
              /\ result[p].success
              /\ result[p].response # <<>>
              /\ result[p].response # <<"apology">>
              /\ result[p].conversation_id =
                    IF request[p].conversation_id # NoConversationId
                    THEN request[p].conversation_id
                    ELSE GeneratedId(request[p].user_id, now)

\* a call whose read and whose append both failed returned success
C11_ReadAndAppendFailed ==
    \E p \in Slots :
        /\ pc[p] = "done"
        /\ store_faults[p] = {"read", "append"}
        /\ result[p].success
        /\ conversations = EmptyStore

(* ---------------------------------------------------------------------- *)
(* The responders' own functions, each applied to an input on its own      *)
(* ---------------------------------------------------------------------- *)

\* the longest study plan asked for, in weeks
MaxWeeks == 12

DigitChars == <<"0", "1", "2", "3", "4", "5", "6", "7", "8", "9">>

\* str(n) of a natural number
Numeral(n) ==
    IF n < 10 THEN <<DigitChars[n + 1]>>
    ELSE <<DigitChars[(n \div 10) + 1], DigitChars[(n % 10) + 1]>>

\* a value of estimated_duration that is not a str (a JSON number)
NotAString == <<"<int>">>

\* s.split()[0]: the first run of characters that are not spaces; <<>>
\* stands for the IndexError of a string with no such run
FirstToken(s) ==
    LET idx == {i \in 1..Len(s) : s[i] # " "} IN
    IF idx = {} THEN <<>>
    ELSE LET first == CHOOSE i \in idx : \A j \in idx : i <= j
             stops == {i \in first..Len(s) : s[i] = " "}
             last == IF stops = {} THEN Len(s)
                     ELSE (CHOOSE i \in stops : \A j \in stops : i <= j) - 1
         IN  SubSeq(s, first, last)

IsDigit(c) == \E d \in 1..10 : DigitChars[d] = c

DigitValue(c) == (CHOOSE d \in 1..10 : DigitChars[d] = c) - 1

RECURSIVE DigitsValue(_)
DigitsValue(ds) ==
    IF ds = <<>> THEN 0
    ELSE 10 * DigitsValue(SubSeq(ds, 1, Len(ds) - 1)) + DigitValue(ds[Len(ds)])

\* int(token): an optional sign and decimal digits; ok is FALSE for the
\* ValueError of any other token
ParseInt(token) ==
    LET signed == token # <<>> /\ token[1] \in {"+", "-"}
        body == IF signed THEN Tail(token) ELSE token
    IN  IF body # <<>> /\ \A i \in 1..Len(body) : IsDigit(body[i])
        THEN [ok |-> TRUE,
              value |-> IF signed /\ token[1] = "-" THEN 0 - DigitsValue(body)
                        ELSE DigitsValue(body)]
        ELSE [ok |-> FALSE, value |-> 0]

\* int(analysis.get("estimated_duration", "2").split()[0])
DurationWeeks(analysis) ==
    LET text == Get(analysis, "estimated_duration", <<"2">>) IN
    IF text = NotAString \/ FirstToken(text) = <<>>
    THEN [ok |-> FALSE, value |-> 0]
    ELSE ParseInt(FirstToken(text))

\* stands for an exception leaving a function
Raised == [raised |-> TRUE]

\* one daily task of _create_study_plan; dates are days from now
DailyTask(goal, week, day) ==
    [title |-> [kind |-> "Day", n |-> day + 1],
     description |-> goal,
     type |-> "study",
     estimated_hours |-> 2,
     deadline |-> 7 * week + day,
     status |-> "pending",
     priority |-> IF day < 3 THEN "high" ELSE "medium"]

\* the weekly assessment task
AssessmentTask(goal, week) ==
    [title |-> [kind |-> "Assessment", n |-> week + 1],
     description |-> goal,
     type |-> "assessment",
     estimated_hours |-> 1,
     deadline |-> 7 * (week + 1),
     status |-> "pending",
     priority |-> "high"]

\* the phase of one week: range(7) daily tasks, then the assessment
Phase(goal, week) ==
    [name |-> [kind |-> "Week", n |-> week + 1],
     order |-> week,
     duration |-> "1 week",
     start_date |-> 7 * week,
     end_date |-> 7 * (week + 1),
     tasks |-> [d \in 1..7 |-> DailyTask(goal, week, d - 1)] \o
               <<AssessmentTask(goal, week)>>]

\* a plan that is one week short
PlanPhasesOneShort(goal, weeks) ==
    [w \in 1..(weeks - 1) |-> Phase(goal, w - 1)]

\* the phases list: for week in range(duration_weeks)
PlanPhases(goal, weeks) ==
    [w \in 1..(IF weeks > 0 THEN weeks ELSE 0) |-> Phase(goal, w - 1)]

\* StudentStudyPlannerAgent._create_study_plan
CreateStudyPlan(goal, analysis) ==
    LET duration_weeks == DurationWeeks(analysis) IN
    IF ~duration_weeks.ok THEN Raised
    ELSE [goal |-> goal,
          phases |-> PlanPhases(goal, duration_weeks.value),
          total_duration |-> duration_weeks.value,
          key_topics |-> Get(analysis, "key_topics", <<>>),
          difficulty |-> Get(analysis, "difficulty_level", "intermediate"),
          created_at |-> 0]

\* the durations an analysis may name
Durations ==
    { Numeral(n) \o <<" ", "w", "e", "e", "k", "s">> : n \in 0..MaxWeeks } \cup
    { <<"1", " ", "w", "e", "e", "k">>,
      <<"2">>,
      <<"3", " ", "m", "o", "n", "t", "h", "s">>,
      <<" ", "4", " ", "w", "e", "e", "k", "s">>,
      <<"+", "5", " ", "w", "e", "e", "k", "s">>,
      <<"-", "1", " ", "w", "e", "e", "k", "s">>,
      <<"t", "w", "o", " ", "w", "e", "e", "k", "s">>,
      <<"2", "-", "3", " ", "w", "e", "e", "k", "s">>,
      <<"a", " ", "f", "e", "w">>,
      <<" ", " ", " ">>,
      <<>>,
      NotAString }

\* the analyses _analyze_study_goal may hand on: the fallback analysis, a
\* provider's analysis naming a duration, and one naming none
Analyses ==
    { [estimated_duration |-> d, difficulty_level |-> "intermediate"] :
        d \in Durations } \cup
    { [difficulty_level |-> "advanced"] }

\* the goals a plan is made for
Goals ==
    { <<"C", "r", "e", "a", "t", "e", " ", "s", "t", "u", "d", "y", " ", "p", "l", "a", "n">>,
      <<"e", "x", "a", "m", " ", "s", "c", "h", "e", "d", "u", "l", "e">>,
      <<"L", "E", "A", "R", "N", "I", "N", "G", " ", "P", "L", "A", "N">> }

\* the longest list of assignments enumerated in full
MaxAssignments == 3

\* an optional field: <<>> for none, <<v>> for the value v
WithOptional(doc, key, optional) ==
    IF optional = <<>> THEN doc ELSE Put(doc, key, optional[1])

\* the assignment documents a caller may have
AssignmentDocs ==
    { WithOptional(WithOptional([status |-> status], "dueDate", due),
                   "priority", priority) :
        status \in {"pending", "completed"},
        due \in {<<>>, <<-1>>, <<1>>, <<3>>},
        priority \in {<<>>, <<"high">>, <<"medium">>, <<"low">>} }

\* a list longer than the cap: pending items due on days n, n-1, .., 1
LongList(n) == [i \in 1..n |-> [status |-> "pending", dueDate |-> n + 1 - i]]

\* what fetch_assignments may find
AssignmentLists ==
    UNION {[1..n -> AssignmentDocs] : n \in 0..MaxAssignments} \cup
    {LongList(ListCap + 1)}

\* the longest reply enumerated character by character
MaxMarkup == 4

\* the characters of a reply that matter to the voice transform
MarkupAlphabet == {"*", "#", Bullet, "-", "a"}

\* unit repeated n times
Repeat(unit, n) == [i \in 1..(n * Len(unit)) |-> unit[((i - 1) % Len(unit)) + 1]]

\* router replies: every short arrangement of markup, and long replies
\* around the budget, plain and with markup
ReplyTexts ==
    UNION {[1..n -> MarkupAlphabet] : n \in 0..MaxMarkup} \cup
    {Repeat(<<"a">>, n) : n \in (VoiceBudget - 1)..(VoiceBudget + 2)} \cup
    {Repeat(<<"a">>, n) \o <<"*", "*", "-", "b", "#", "#", "#", "#", "#">> :
        n \in (VoiceBudget - 2)..(VoiceBudget + 1)} \cup
    {Repeat(<<"a", "b", " ">>, (2 * VoiceBudget) \div 3)}

InitAgents ==
    /\ memory = TRUE
    /\ ai_type = "None"
    /\ db = "connected"
    /\ reachable = TRUE
    /\ now = 0
    /\ workload = "single"
    /\ conversations = EmptyStore
    /\ agent_logs = <<>>
    /\ agenticplans = <<>>
    /\ last_saved = EmptyStore
    /\ issued = 0
    /\ clear_result = NoCleared
    /\ InitLocals
    /\ sample \in {<<"goal", goal, analysis>> :
                      goal \in Goals, analysis \in Analyses}
                   \cup {<<"assignments", found>> : found \in AssignmentLists}
                   \cup {<<"reply", text>> : text \in ReplyTexts}
    /\ verdict = <<>>

\* _create_study_plan applied to the goal and analysis of the sample
PlanOnSample ==
    /\ sample[1] = "goal"
    /\ Classified("plan", CreateStudyPlan(sample[2], sample[3]))

\* _list_assignments applied to the documents of the sample
ListOnSample ==
    /\ sample[1] = "assignments"
    /\ Classified("list", ListAssignments(sample[2]))

\* _format_for_voice applied to the reply of the sample
VoiceOnSample ==
    /\ sample[1] = "reply"
    /\ Classified("voice", FormatForVoice(sample[2]))

NextAgents ==
    \/ PlanOnSample
    \/ ListOnSample
    \/ VoiceOnSample

SpecAgents == InitAgents /\ [][NextAgents]_vars

\* C12: for an analysis whose estimated_duration is "N weeks" with N >= 1,
\* the plan has exactly N phases in week order, each of exactly 8 tasks:
\* the 7 daily study tasks in day order, then one assessment task; the
\* daily tasks of days 0..2 have priority high, those of days 3..6 medium.
C12_PlanShape ==
    \A n \in 1..MaxWeeks :
        ( /\ verdict # <<>>
          /\ verdict[1] = "plan"
          /\ "estimated_duration" \in DOMAIN sample[3]
          /\ sample[3].estimated_duration = Numeral(n) \o <<" ", "w", "e", "e", "k", "s">> ) =>
            LET plan == verdict[2] IN
            /\ "phases" \in DOMAIN plan
            /\ Len(plan.phases) = n
            /\ \A w \in 1..n :
                  LET phase == plan.phases[w] IN
                  /\ phase.order = w - 1
                  /\ phase.name.n = w
                  /\ Len(phase.tasks) = 8
                  /\ \A d \in 1..7 :
                        /\ phase.tasks[d].type = "study"
                        /\ phase.tasks[d].title = [kind |-> "Day", n |-> d]
                        /\ phase.tasks[d].deadline = 7 * (w - 1) + (d - 1)
                        /\ phase.tasks[d].priority =
                              IF d - 1 <= 2 THEN "high" ELSE "medium"
                  /\ phase.tasks[8].type = "assessment"

\* a plan was made for "3 weeks"
C12_ThreeWeekPlan ==
    /\ verdict # <<>>
    /\ verdict[1] = "plan"
    /\ "estimated_duration" \in DOMAIN sample[3]
    /\ sample[3].estimated_duration = <<"3", " ", "w", "e", "e", "k", "s">>
    /\ Len(verdict[2].phases) = 3

\* the rank the priorities are compared by: high < medium < low, none as
\* medium
C13_Rank(a) ==
    IF "priority" \notin DOMAIN a THEN 1
    ELSE CHOOSE r \in 0..2 : <<"high", "medium", "low">>[r + 1] = a.priority

\* how often a document occurs in a list
C13_Count(list, a) == Cardinality({i \in 1..Len(list) : list[i] = a})

\* C13: data.assignments of _list_assignments holds only pending items of
\* the caller, ordered by due date ascending and then by priority rank
\* ascending; an overdue item stands where its due date puts it, so pending
\* items due at t+1, t+3 and t-1 come back in the order t-1, t+1, t+3
\* whatever their priorities.
C13_PendingByDueThenPriority ==
    (verdict # <<>> /\ verdict[1] = "list" /\ sample[2] # <<>>) =>
        LET found == sample[2]
            out == verdict[2].data.assignments
            pending == {i \in 1..Len(found) : found[i].status = "pending"}
        IN  /\ \A i \in 1..Len(out) :
                  /\ out[i].status = "pending"
                  /\ C13_Count(out, out[i]) <= C13_Count(found, out[i])
            /\ \A i, j \in 1..Len(out) :
                  ( /\ i < j
                    /\ "dueDate" \in DOMAIN out[i]
                    /\ "dueDate" \in DOMAIN out[j] ) =>
                      \/ out[i].dueDate < out[j].dueDate
                      \/ /\ out[i].dueDate = out[j].dueDate
                         /\ C13_Rank(out[i]) <= C13_Rank(out[j])
            /\ ( /\ Cardinality(pending) = 3
                 /\ (\A k \in pending : "dueDate" \in DOMAIN found[k])
                 /\ {Get(found[k], "dueDate", 0) : k \in pending} = {1, 3, -1} ) =>
                    /\ Len(out) = 3
                    /\ out[1].dueDate = -1
                    /\ out[2].dueDate = 1
                    /\ out[3].dueDate = 3

\* pending items due at t+1 (high), t+3 (medium) and t-1 (low) were listed:
\* the overdue low-priority item comes first
C13_OverdueLowListedFirst ==
    /\ verdict # <<>>
    /\ verdict[1] = "list"
    /\ sample[2] = << [status |-> "pending", dueDate |-> 1, priority |-> "high"],
                      [status |-> "pending", dueDate |-> 3, priority |-> "medium"],
                      [status |-> "pending", dueDate |-> -1, priority |-> "low"] >>
    /\ verdict[2].data.assignments[1].dueDate = -1
    /\ verdict[2].data.assignments[1].priority = "low"

\* C14: a caller with no conversation record who sends "hello" without a
\* conversation id, with no completion provider configured, gets a fresh
\* conversation id and a greeting that names the placeholder whenever no
\* profile name is on record (no user document, or a user document
\* without a name), and afterwards the store holds a new record for the
\* caller and that id with exactly 2 turns.
C14_HelloGreetsPlaceholder ==
    [][\A p \in Slots :
          ( /\ request[p].message = <<"h", "e", "l", "l", "o">>
            /\ request[p].conversation_id = NoConversationId
            /\ ai_type = "None"
            /\ memory
            /\ ~StoreRaises
            /\ store_faults[p] = {}
            /\ lookup[p] # "raised"
            /\ Matching(request[p].user_id, conv_id[p]) = {}
            /\ \A u \in users :
                  u._id = request[p].user_id => "name" \notin DOMAIN u ) =>
              /\ SaveStep(p) =>
                    /\ response_text[p] = <<"greeting", "there">>
                    /\ \E t \in 0..now :
                          conv_id[p] = GeneratedId(request[p].user_id, t)
                    /\ KeyOf(p) \in DOMAIN conversations'
                    /\ Len(conversations'[KeyOf(p)]) = 2
              /\ (pc[p] = "return" /\ pc'[p] = "done") =>
                    /\ result'[p].success
                    /\ result'[p].response = <<"greeting", "there">>
                    /\ result'[p].conversation_id = conv_id[p]]_vars

\* C15: for a caller with no assignments on record, "list my assignments"
\* is classified as action intent, dispatched to the assignment manager and
\* sub-classified as list_assignments, and the responder returns an
\* envelope with success=true, data.assignments the empty list and a
\* response text saying that there are no assignments.
C15_NoAssignmentsListed ==
    \A p \in Slots :
        ( /\ pc[p] \in {"save", "return", "done"}
          /\ request[p].message = <<"l", "i", "s", "t", " ", "m", "y", " ",
                "a", "s", "s", "i", "g", "n", "m", "e", "n", "t", "s">>
          /\ \A i \in 1..Len(assignments) :
                assignments[i].userId # request[p].user_id ) =>
            /\ action_needed[p]
            /\ DetectActionType(request[p].message) = "list_assignments"
            /\ Responder(response_data[p]) = "Assignment Manager Agent"
            /\ response_data[p].success
            /\ response_data[p].data = [assignments |-> <<>>]
            /\ response_data[p].response = <<"no_assignments">>
            /\ response_text[p] = <<"no_assignments">>
            /\ (pc[p] = "done" =>
                    /\ result[p].success
                    /\ result[p].response = <<"no_assignments">>)

\* caller u2, who has no assignments, was told so on a working store
C15_EmptyListReturned ==
    \E p \in Slots :
        /\ pc[p] = "done"
        /\ request[p].user_id = "u2"
        /\ store_faults[p] = {}
        /\ DetectActionType(request[p].message) = "list_assignments"
        /\ result[p].success
        /\ result[p].response = <<"no_assignments">>
        /\ result[p].actions_taken = <<>>

\* whether pattern occurs in text
C19_Occurs(text, pattern) ==
    \E i \in 1..(Len(text) - Len(pattern) + 1) :
        SubSeq(text, i, i + Len(pattern) - 1) = pattern

\* C18: the voice response keeps to the character budget: when the reply
\* with its markup stripped is longer than 500 characters, the voice
\* response is its first 500 characters followed by the continuation
\* prompt; otherwise it is the stripped reply, with no prompt appended.
C18_VoiceBudgetKept ==
    (verdict # <<>> /\ verdict[1] = "voice") =>
        LET stripped == StripMarkup(sample[2])
            out == verdict[2]
        IN  IF Len(stripped) > 500
            THEN /\ Len(out) = 500 + Len(ContinuationPrompt)
                 /\ SubSeq(out, 1, 500) = SubSeq(stripped, 1, 500)
                 /\ SubSeq(out, 501, Len(out)) = ContinuationPrompt
            ELSE /\ out = stripped
                 /\ Len(out) <= 500

\* a reply of exactly 500 characters after stripping went out whole, though
\* it was longer with its markup
C18_ExactlyBudget ==
    /\ verdict # <<>>
    /\ verdict[1] = "voice"
    /\ Len(sample[2]) > 500
    /\ Len(StripMarkup(sample[2])) = 500
    /\ verdict[2] = StripMarkup(sample[2])

\* C19: the voice response has its markup stripped: it holds no "**", no
\* "##", no bullet and no hyphen, however those characters are arranged in
\* the reply.
C19_NoMarkupLeft ==
    (verdict # <<>> /\ verdict[1] = "voice") =>
        /\ ~C19_Occurs(verdict[2], <<"*", "*">>)
        /\ ~C19_Occurs(verdict[2], <<"#", "#">>)
        /\ ~C19_Occurs(verdict[2], <<Bullet>>)
        /\ ~C19_Occurs(verdict[2], <<"-">>)

\* earlier is a prefix of later
C16_Prefix(earlier, later) ==
    /\ Len(earlier) <= Len(later)
    /\ SubSeq(later, 1, Len(earlier)) = earlier

\* C16 as stated: across chat, voice query and clear history, every
\* conversation record keeps its earlier turn sequence as a prefix of its
\* later one; no turn is ever removed, reordered or rewritten.
C16_TurnsAppendOnly ==
    [][\A k \in DOMAIN conversations :
          /\ k \in DOMAIN conversations'
          /\ C16_Prefix(conversations[k], conversations'[k])]_vars

\* C16, amended: a chat or voice query leaves every conversation record
\* with its earlier turn sequence as a prefix of its later one; the one
\* operation that removes turns is clear history, which removes whole
\* records, all those of one caller and of no other.
C16_AppendOnlyUntilCleared ==
    [][LET removed == DOMAIN conversations \ DOMAIN conversations' IN
       /\ \A k \in DOMAIN conversations \ removed :
             C16_Prefix(conversations[k], conversations'[k])
       /\ removed # {} =>
             /\ pc' = pc
             /\ \E user_id \in {k[1] : k \in removed} :
                   removed = {k \in DOMAIN conversations : k[1] = user_id}]_vars

\* a request has appended its exchange to a record of earlier exchanges
C16_AppendedToEarlierTurns ==
    \E k \in DOMAIN conversations :
        /\ Len(conversations[k]) >= 4
        /\ conversations[k][1].ex < 0
        /\ conversations[k][Len(conversations[k])].ex > 0
        /\ conversations[k][Len(conversations[k])].role = "assistant"

\* C17: every envelope a responder's process returns, on every
\* sub-operation and on the error path, has all of the keys success,
\* agent_name, response, actions_performed, analysis, data, recommendations
\* and timestamp, and its list-valued fields actions_performed and
\* recommendations are lists, empty when there is nothing to report, never
\* null or absent.
C17_EnvelopeComplete ==
    \A p \in Slots :
        ( /\ pc[p] \in {"save", "return", "done"}
          /\ action_needed[p]
          /\ Responder(response_data[p]) # "none" ) =>
            /\ DOMAIN response_data[p] =
                  {"success", "agent_name", "response", "actions_performed",
                   "analysis", "data", "recommendations", "timestamp"}
            /\ Len(response_data[p].actions_performed) >= 0
            /\ ~response_data[p].recommendations.none

\* request p has been classified, and dispatched if it is an action
C20_Classified(p) ==
    /\ pc[p] \in {"save", "return", "done", "replied"}
    /\ IsText(request[p].message)

\* C20: two process_message calls with the same message, caller and
\* context reach the same classification, that is the same decision
\* between action and conversation and the same responder, whatever the
\* completion provider returned to each and whatever history each read.
C20_ClassificationDeterministic ==
    \A p, q \in Slots :
        ( /\ C20_Classified(p)
          /\ C20_Classified(q)
          /\ request[p].message = request[q].message
          /\ request[p].user_id = request[q].user_id
          /\ request[p].context = request[q].context ) =>
            /\ action_needed[p] = action_needed[q]
            /\ Responder(response_data[p]) = Responder(response_data[q])

\* two calls with the same inputs were classified alike though they read
\* different histories and the provider answered one and failed the other
C20_SameInputsDifferentRuns ==
    \E p, q \in Slots :
        /\ p # q
        /\ C20_Classified(p)
        /\ C20_Classified(q)
        /\ request[p].message = request[q].message
        /\ request[p].user_id = request[q].user_id
        /\ conversation_history[p] # conversation_history[q]
        /\ provider_calls[p] = <<"returned">>
        /\ provider_calls[q] = <<"raised">>
        /\ action_needed[p] = action_needed[q]

(* ---------------------------------------------------------------------- *)
(* The responders' process, each taken on its own                          *)
(* ---------------------------------------------------------------------- *)

\* the name each responder passes to BaseAgent.__init__
AgentNames ==
    {"Study Planner Agent", "Assignment Manager Agent",
     "Report Generator Agent", "Helpdesk Manager Agent"}

\* the except branch of _analyze_study_goal
FallbackAnalysis(query) ==
    [goal_type |-> "general_study",
     difficulty_level |-> "intermediate",
     estimated_duration |-> <<"2", " ", "w", "e", "e", "k", "s">>,
     key_topics |-> <<query>>,
     prerequisites |-> <<>>,
     recommendations |-> <<"Start with fundamentals", "Practice regularly",
                           "Review materials daily">>]

\* StudentStudyPlannerAgent._analyze_study_goal: json.loads of the text
\* generate_ai_response returned; text that is not JSON (prose, or the
\* fallback text of a failed call) gives the fallback analysis
AnalyzeStudyGoal(query, ai) ==
    IF ai.parsed = <<>> THEN FallbackAnalysis(query) ELSE ai.parsed[1]

\* the materials collection (nothing in this service writes to it)
materials ==
    << [title |-> <<"e", "x", "a", "m", " ", "s", "c", "h", "e", "d", "u", "l", "e", " ", "t", "i", "p", "s">>],
       [title |-> <<"L", "e", "a", "r", "n", "i", "n", "g", " ", "p", "l", "a", "n", " ", "b", "a", "s", "i", "c", "s">>],
       [title |-> <<"l", "a", "b", " ", "n", "o", "t", "e", "s">>] >>

\* BaseAgent.fetch_materials with a query: the materials whose title holds
\* the query, letter case ignored; [] when the store raises
FetchMaterials(query, store_raises) ==
    IF store_raises THEN <<>>
    ELSE SelectSeq(materials,
             LAMBDA m : Contains(Lower(m.title), Lower(query)))

\* _find_relevant_materials: every material found gets the fixed marker
FindRelevantMaterials(query, store_raises) ==
    LET found == FetchMaterials(query, store_raises) IN
    [i \in 1..Len(found) |->
        Put(Put(found[i], "relevance_score", 85), "ai_recommended", TRUE)]

\* one write to the store: the collection and the document inserted
Write(collection, doc) == [collection |-> collection, doc |-> doc]

\* _save_study_plan: the insert it makes and the id it returns, which is
\* "temp_id" when the store raises
SaveStudyPlan(user_id, plan, store_raises) ==
    IF store_raises
    THEN [plan_id |-> [temp |-> TRUE, n |-> 0], writes |-> <<>>]
    ELSE [plan_id |-> [temp |-> FALSE, n |-> Len(agenticplans) + 1],
          writes |-> <<Write("agenticplans",
                             [userId |-> user_id, goal |-> plan.goal])>>]

\* log_action without its try/except
LogActionUnguarded(agent_name, action_type, user_id, log_raises) ==
    IF log_raises THEN [raised |-> TRUE, writes |-> <<>>]
    ELSE [raised |-> FALSE,
          writes |-> <<Write("agent_logs",
                             [agent_name |-> agent_name,
                              action_type |-> action_type,
                              user_id |-> user_id])>>]

\* BaseAgent.log_action: one insert into agent_logs; an exception of
\* get_collection or insert_one is logged and dropped
LogAction(agent_name, action_type, user_id, log_raises) ==
    IF log_raises THEN [raised |-> FALSE, writes |-> <<>>]
    ELSE [raised |-> FALSE,
          writes |-> <<Write("agent_logs",
                             [agent_name |-> agent_name,
                              action_type |-> action_type,
                              user_id |-> user_id])>>]

\* the except branch of every process: the fallback text and one error
\* entry; writes made before the exception stay made
ErrorEnvelope(agent_name, query) ==
    FormatResponse(agent_name, FallbackResponse(agent_name, query),
        List(<<ActionEntry("error", FALSE)>>), NullDict, NullDict, NoneList)

\* StudentStudyPlannerAgent.process. store_raises is whether the store
\* fails the reads and the plan insert, log_raises whether it fails the
\* audit write.
PlannerProcess(query, user_id, reply, store_raises, log_raises) ==
    LET name == "Study Planner Agent"
        ai == GenerateAiResponse(name, query, reply)
        analysis == AnalyzeStudyGoal(query, ai)
        study_plan == CreateStudyPlan(query, analysis)
        found == FindRelevantMaterials(query, store_raises)
        saved == SaveStudyPlan(user_id, study_plan, store_raises)
        logged == LogAction(name, "create_study_plan", user_id, log_raises)
    IN  IF study_plan = Raised
        THEN Outcome(ErrorEnvelope(name, query), <<>>, <<ai.calls>>)
        ELSE IF logged.raised
        THEN Outcome(ErrorEnvelope(name, query), saved.writes, <<ai.calls>>)
        ELSE Outcome(
                 FormatResponse(name, Text("plan_created", query),
                     List(<<Put(ActionEntry("study_plan_created", TRUE),
                                "plan_id", saved.plan_id),
                            Put(ActionEntry("materials_found", TRUE),
                                "count", Len(found))>>),
                     analysis,
                     [plan_id |-> saved.plan_id,
                      study_plan |-> study_plan,
                      materials |-> FirstN(found, 5)],
                     List(Get(analysis, "recommendations", <<>>))),
                 saved.writes \o logged.writes,
                 <<ai.calls>>)

\* the word lists of AdminReportGeneratorAgent._detect_report_type
performance_words ==
    {<<"s", "t", "u", "d", "e", "n", "t">>,
     <<"p", "e", "r", "f", "o", "r", "m", "a", "n", "c", "e">>,
     <<"g", "r", "a", "d", "e", "s">>}
engagement_words ==
    {<<"e", "n", "g", "a", "g", "e", "m", "e", "n", "t">>,
     <<"a", "c", "t", "i", "v", "i", "t", "y">>,
     <<"p", "a", "r", "t", "i", "c", "i", "p", "a", "t", "i", "o", "n">>}
analytics_words ==
    {<<"c", "o", "u", "r", "s", "e">>,
     <<"e", "n", "r", "o", "l", "l", "m", "e", "n", "t">>,
     <<"c", "l", "a", "s", "s">>}

\* AdminReportGeneratorAgent._detect_report_type
DetectReportType(query) ==
    LET query_lower == Lower(query) IN
    IF AnyIn(performance_words, query_lower) THEN "student_performance"
    ELSE IF AnyIn(engagement_words, query_lower) THEN "engagement"
    ELSE IF AnyIn(analytics_words, query_lower) THEN "course_analytics"
    ELSE "overview"

\* the courses, events and helpdesks collections (nothing in this service
\* writes to them)
courses ==
    << [_id |-> "c1", department |-> "CSE"],
       [_id |-> "c2", department |-> "ECE"],
       [_id |-> "c3"] >>

events ==
    << [title |-> "fest", status |-> "upcoming"],
       [title |-> "talk", status |-> "past"] >>

helpdesks ==
    << [status |-> "open", priority |-> "high"],
       [status |-> "resolved", priority |-> "low"],
       [status |-> "open"] >>

\* len([x for x in docs if x.get(key) == value])
CountWhere(docs, key, value) ==
    Len(SelectSeq(docs, LAMBDA x : Get(x, key, None) = value))

\* one entry of actions_performed of a report
ReportAction(report_type) ==
    Put(ActionEntry("report_generated", TRUE), "report_type", report_type)

\* _generate_student_performance_report: three reads, one
\* generate_ai_response call, one audit entry; the completion rate is
\* kept in whole percent
StudentPerformanceReport(reply, log_raises) ==
    LET name == "Report Generator Agent"
        students == {u \in users : Get(u, "role", None) = "student"}
        total_students == Cardinality(students)
        active_students ==
            Cardinality({s \in students : "enrolledCourses" \in DOMAIN s})
        completed_assignments == CountWhere(assignments, "status", "completed")
        total_assignments == Len(assignments)
        completion_rate ==
            (completed_assignments * 100) \div
                (IF total_assignments > 1 THEN total_assignments ELSE 1)
        ai == GenerateAiResponse(name, Text("analysis_prompt", <<>>), reply)
        logged == LogAction(name, "generate_report", "admin", log_raises)
    IN  IF logged.raised THEN Raised
        ELSE Outcome(
                 FormatResponse(name, Text("student_performance", ai.text),
                     List(<<ReportAction("student_performance")>>),
                     [total_students |-> total_students,
                      active_students |-> active_students,
                      completion_rate |-> completion_rate],
                     [students |-> total_students,
                      courses |-> Len(courses),
                      assignments |-> total_assignments],
                     NoneList),
                 logged.writes,
                 <<ai.calls>>)

\* _generate_engagement_report
EngagementReport ==
    Outcome(
        FormatResponse("Report Generator Agent", Text("engagement", <<>>),
            List(<<ReportAction("engagement")>>),
            NullDict,
            [events |-> Len(events), materials |-> Len(materials)],
            NoneList),
        <<>>, <<>>)

\* _generate_course_analytics
CourseAnalytics ==
    LET departments ==
            {Get(courses[i], "department", "Unknown") : i \in DOMAIN courses}
    IN  Outcome(
            FormatResponse("Report Generator Agent",
                Text("course_analytics", <<>>),
                List(<<ReportAction("course_analytics")>>),
                NullDict,
                [courses |-> Len(courses),
                 departments |-> Cardinality(departments)],
                NoneList),
            <<>>, <<>>)

\* _generate_overview_report
OverviewReport ==
    Outcome(
        FormatResponse("Report Generator Agent", Text("overview", <<>>),
            List(<<ReportAction("overview")>>),
            NullDict,
            [students |-> Cardinality({u \in users :
                                          Get(u, "role", None) = "student"}),
             courses |-> Len(courses),
             events |-> Len(events),
             materials |-> Len(materials)],
            NoneList),
        <<>>, <<>>)

\* AdminReportGeneratorAgent.process: every report reads the store first
\* and re-raises what the read raises, which process answers with the
\* error envelope
ReportProcess(query, user_id, reply, store_raises, log_raises) ==
    LET name == "Report Generator Agent"
        report_type == DetectReportType(query)
        report ==
            IF store_raises THEN Raised
            ELSE IF report_type = "student_performance"
            THEN StudentPerformanceReport(reply, log_raises)
            ELSE IF report_type = "engagement" THEN EngagementReport
            ELSE IF report_type = "course_analytics" THEN CourseAnalytics
            ELSE OverviewReport
    IN  IF report = Raised
        THEN Outcome(ErrorEnvelope(name, query), <<>>, <<>>)
        ELSE report

\* the word lists of AdminHelpdeskManagerAgent._detect_action_type
categorize_words ==
    {<<"c", "a", "t", "e", "g", "o", "r", "i", "z", "e">>,
     <<"c", "a", "t", "e", "g", "o", "r", "y">>,
     <<"c", "l", "a", "s", "s", "i", "f", "y">>}
solution_words ==
    {<<"s", "o", "l", "v", "e">>,
     <<"s", "o", "l", "u", "t", "i", "o", "n">>,
     <<"f", "i", "x">>,
     <<"h", "e", "l", "p">>}
ticket_words ==
    {<<"l", "i", "s", "t">>,
     <<"s", "h", "o", "w">>,
     <<"t", "i", "c", "k", "e", "t", "s">>,
     <<"p", "e", "n", "d", "i", "n", "g">>}

\* AdminHelpdeskManagerAgent._detect_action_type
DetectHelpdeskAction(query) ==
    LET query_lower == Lower(query) IN
    IF AnyIn(categorize_words, query_lower) THEN "categorize"
    ELSE IF AnyIn(solution_words, query_lower) THEN "suggest_solution"
    ELSE IF AnyIn(ticket_words, query_lower) THEN "list_tickets"
    ELSE "general"

\* context.get("description", query) if context else query
TicketDescription(query, context) ==
    IF context = NullDict \/ context = EmptyDict THEN query
    ELSE Get(context, "description", query)

\* _categorize_ticket storing the category on a ticket
CategorizeTicketStoring(query, context, reply) ==
    LET name == "Helpdesk Manager Agent"
        ticket_description == TicketDescription(query, context)
        ai == GenerateAiResponse(name, ticket_description, reply)
    IN  Outcome(
            FormatResponse(name,
                Text("categorization", FirstN(ticket_description, 100)),
                List(<<ActionEntry("ticket_categorized", TRUE),
                       ActionEntry("priority_assigned", TRUE)>>),
                NullDict, NullDict, NoneList),
            <<Write("helpdesks", [status |-> "open", category |-> ai.text])>>,
            <<ai.calls>>)

\* _categorize_ticket: one generate_ai_response call, no store operation
CategorizeTicket(query, context, reply) ==
    LET name == "Helpdesk Manager Agent"
        ticket_description == TicketDescription(query, context)
        ai == GenerateAiResponse(name, ticket_description, reply)
    IN  Outcome(
            FormatResponse(name,
                Text("categorization", FirstN(ticket_description, 100)),
                List(<<ActionEntry("ticket_categorized", TRUE),
                       ActionEntry("priority_assigned", TRUE)>>),
                NullDict, NullDict, NoneList),
            <<>>, <<ai.calls>>)

\* _suggest_solution: one generate_ai_response call, no store operation
SuggestSolution(query, context, reply) ==
    LET name == "Helpdesk Manager Agent"
        issue_description == TicketDescription(query, context)
        ai == GenerateAiResponse(name, issue_description, reply)
    IN  Outcome(
            FormatResponse(name,
                Text("solution", FirstN(issue_description, 100)),
                List(<<ActionEntry("solution_generated", TRUE)>>),
                NullDict, NullDict, NoneList),
            <<>>, <<ai.calls>>)

\* _list_tickets: one read; when it raises the reply says there are no
\* tickets
ListTickets(store_raises) ==
    LET name == "Helpdesk Manager Agent" IN
    IF store_raises
    THEN Outcome(
             FormatResponse(name, Text("no_tickets", <<>>), NoneList,
                 NullDict, [tickets |-> <<>>], NoneList),
             <<>>, <<>>)
    ELSE Outcome(
             FormatResponse(name, Text("helpdesk_dashboard", <<>>), NoneList,
                 [total |-> Len(helpdesks),
                  open |-> CountWhere(helpdesks, "status", "open"),
                  resolved |-> CountWhere(helpdesks, "status", "resolved")],
                 [tickets |-> FirstN(helpdesks, 10)],
                 NoneList),
             <<>>, <<>>)

\* _general_helpdesk_info
GeneralHelpdeskInfo ==
    Outcome(
        FormatResponse("Helpdesk Manager Agent", Text("helpdesk_info", <<>>),
            NoneList, NullDict, NullDict, NoneList),
        <<>>, <<>>)

\* AdminHelpdeskManagerAgent.process
HelpdeskProcess(query, user_id, context, reply, store_raises) ==
    LET action_type == DetectHelpdeskAction(query) IN
    IF action_type = "categorize" THEN CategorizeTicket(query, context, reply)
    ELSE IF action_type = "suggest_solution"
    THEN SuggestSolution(query, context, reply)
    ELSE IF action_type = "list_tickets" THEN ListTickets(store_raises)
    ELSE GeneralHelpdeskInfo

\* the queries each responder is sent
PlannerQueries == Goals

AssignmentQueries ==
    { <<"l", "i", "s", "t", " ", "m", "y", " ", "a", "s", "s", "i", "g", "n", "m", "e", "n", "t", "s">>, <<"w", "r", "i", "t", "e", " ", "m", "y", " ", "e", "s", "s", "a", "y">>, <<"I", " ", "a", "m", " ", "s", "t", "u", "c", "k">>,
      <<"a", "s", "s", "i", "g", "n", "m", "e", "n", "t", "s">> }

ReportQueries ==
    { <<"S", "t", "u", "d", "e", "n", "t", " ", "g", "r", "a", "d", "e", "s">>, <<"e", "n", "g", "a", "g", "e", "m", "e", "n", "t", " ", "l", "a", "s", "t", " ", "m", "o", "n", "t", "h">>, <<"c", "o", "u", "r", "s", "e", " ", "e", "n", "r", "o", "l", "l", "m", "e", "n", "t">>,
      <<"o", "v", "e", "r", "v", "i", "e", "w">> }

HelpdeskQueries ==
    { <<"c", "a", "t", "e", "g", "o", "r", "i", "z", "e", " ", "t", "h", "i", "s", " ", "t", "i", "c", "k", "e", "t">>, <<"F", "I", "X", " ", "t", "h", "e", " ", "p", "r", "i", "n", "t", "e", "r">>, <<"s", "h", "o", "w", " ", "t", "i", "c", "k", "e", "t", "s">>,
      <<"h", "e", "l", "l", "o">> }

\* the context a helpdesk request may carry
HelpdeskContexts == { NullDict, EmptyDict, [description |-> <<"w", "i", "f", "i", " ", "d", "o", "w", "n">>] }

\* what it may do with the planner's request for an analysis
AnalysisReplies ==
    ProviderReplies \cup { ProviderReply("analysis", a) : a \in Analyses }

\* one request to a responder, with what it will meet: the provider's
\* reply, and whether the store fails the audit write
AgentRequest(agent, query, user_id, context, reply, log_raises) ==
    [agent |-> agent, query |-> query, user_id |-> user_id,
     context |-> context, reply |-> reply, log_raises |-> log_raises]

\* whether the store fails the audit write: it does when there is no
\* database handle, and it may whatever the earlier operations met
LogOutcomes == IF GetCollectionRaises THEN {TRUE} ELSE BOOLEAN

\* an audit entry written before the run
PriorLog ==
    [agent_name |-> "Study Planner Agent",
     action_type |-> "create_study_plan", user_id |-> "u1"]

InitProcess ==
    /\ memory = TRUE
    /\ ai_type \in AiTypes
    /\ db \in {"connected", "None"}
    /\ reachable \in BOOLEAN
    /\ now = 0
    /\ workload = "single"
    /\ conversations = EmptyStore
    /\ agent_logs \in {<<>>, <<PriorLog>>}
    /\ agenticplans = <<>>
    /\ last_saved = EmptyStore
    /\ issued = 0
    /\ clear_result = NoCleared
    /\ InitLocals
    /\ sample \in
         { AgentRequest("Study Planner Agent", q, u, NullDict, r, f) :
             q \in PlannerQueries, u \in Callers, r \in AnalysisReplies,
             f \in LogOutcomes } \cup
         { AgentRequest("Assignment Manager Agent", q, u, NullDict, r, f) :
             q \in AssignmentQueries, u \in Callers, r \in ProviderReplies,
             f \in LogOutcomes } \cup
         { AgentRequest("Report Generator Agent", q, "admin", NullDict, r, f) :
             q \in ReportQueries, r \in ProviderReplies, f \in LogOutcomes } \cup
         { AgentRequest("Helpdesk Manager Agent", q, "admin", c, r, f) :
             q \in HelpdeskQueries, c \in HelpdeskContexts,
             r \in ProviderReplies, f \in LogOutcomes }
    /\ verdict = <<>>

\* the documents a sequence of writes inserts into one collection
Inserted(writes, collection) ==
    LET there == SelectSeq(writes, LAMBDA w : w.collection = collection)
    IN  [i \in 1..Len(there) |-> there[i].doc]

\* one invocation of process has returned: its writes are in the store
Processed(outcome) ==
    /\ verdict = <<>>
    /\ verdict' = <<"process", outcome>>
    /\ agent_logs' = agent_logs \o Inserted(outcome.writes, "agent_logs")
    /\ agenticplans' =
           agenticplans \o Inserted(outcome.writes, "agenticplans")
    /\ UNCHANGED <<envVars, conversations, last_saved, issued, clear_result, localVars,
                   sample>>

PlannerOnSample ==
    /\ sample.agent = "Study Planner Agent"
    /\ Processed(PlannerProcess(sample.query, sample.user_id, sample.reply,
                                StoreRaises, sample.log_raises))

AssignmentOnSample ==
    /\ sample.agent = "Assignment Manager Agent"
    /\ Processed(AssignmentProcess(sample.query, sample.user_id, sample.reply))

ReportOnSample ==
    /\ sample.agent = "Report Generator Agent"
    /\ Processed(ReportProcess(sample.query, sample.user_id, sample.reply,
                                StoreRaises, sample.log_raises))

HelpdeskOnSample ==
    /\ sample.agent = "Helpdesk Manager Agent"
    /\ Processed(HelpdeskProcess(sample.query, sample.user_id, sample.context,
                                 sample.reply, StoreRaises))

NextProcess ==
    \/ PlannerOnSample
    \/ AssignmentOnSample
    \/ ReportOnSample
    \/ HelpdeskOnSample

SpecProcess == InitProcess /\ [][NextProcess]_vars

\* a request to the named responder has been processed
C21_Processed(agent) ==
    /\ verdict # <<>>
    /\ sample.agent = agent

\* the analysis the planner worked from
C21_Analysis ==
    AnalyzeStudyGoal(sample.query,
        GenerateAiResponse(sample.agent, sample.query, sample.reply))

\* the provider was called and failed
C21_AiCallFailed == ai_type # "None" /\ sample.reply.kind = "raised"

\* C21: when the study planner cannot parse a leading integer from the
\* analysis's estimated_duration (missing, not starting with an integer,
\* not a string), or when the AI call failed, the envelope of process has a
\* study plan of exactly 2 phases and reports study_plan_created with
\* success true.
C21_UnparsedDurationDefaultsToTwo ==
    ( /\ C21_Processed("Study Planner Agent")
      /\ \/ C21_AiCallFailed
         \/ "estimated_duration" \notin DOMAIN C21_Analysis
         \/ ~DurationWeeks(C21_Analysis).ok ) =>
        LET envelope == verdict[2].envelope IN
        /\ envelope.data # NullDict
        /\ Len(envelope.data.study_plan.phases) = 2
        /\ \E i \in DOMAIN envelope.actions_performed :
             /\ envelope.actions_performed[i].type = "study_plan_created"
             /\ envelope.actions_performed[i].success

\* the part of C21 that the planner keeps: a missing estimated_duration
\* and a failed AI call both give the 2-phase plan
C21_MissingOrFailedDefaultsToTwo ==
    ( /\ C21_Processed("Study Planner Agent")
      /\ \/ C21_AiCallFailed
         \/ "estimated_duration" \notin DOMAIN C21_Analysis ) =>
        LET envelope == verdict[2].envelope IN
        /\ envelope.data # NullDict
        /\ Len(envelope.data.study_plan.phases) = 2
        /\ \E i \in DOMAIN envelope.actions_performed :
             /\ envelope.actions_performed[i].type = "study_plan_created"
             /\ envelope.actions_performed[i].success

\* the step by which a request to the named responder is processed, with
\* the store answering every operation of the request
C22_ProcessStep(agent) ==
    /\ verdict = <<>>
    /\ verdict' # <<>>
    /\ sample.agent = agent
    /\ ~StoreRaises
    /\ ~sample.log_raises

\* C22: with the store reachable, every invocation of process on every
\* responder (study planner, assignment manager, report generator,
\* helpdesk manager), whatever the sub-operation, appends exactly one
\* entry to the audit log agent_logs.
C22_OneAuditEntryPerProcess ==
    [][\A agent \in AgentNames :
          C22_ProcessStep(agent) =>
              /\ Len(agent_logs') = Len(agent_logs) + 1
              /\ SubSeq(agent_logs', 1, Len(agent_logs)) = agent_logs]_vars

\* what the code keeps of C22: the planner with a plan built, and the
\* student performance report, append exactly one entry
C22_PlannerAndPerformanceReportLog ==
    [][( \/ /\ C22_ProcessStep("Study Planner Agent")
            /\ DurationWeeks(C21_Analysis).ok
         \/ /\ C22_ProcessStep("Report Generator Agent")
            /\ DetectReportType(sample.query) = "student_performance" ) =>
          /\ Len(agent_logs') = Len(agent_logs) + 1
          /\ SubSeq(agent_logs', 1, Len(agent_logs)) = agent_logs]_vars

\* the invocations that append nothing though the store answers: every
\* other one
C22_OthersLogNothing ==
    [][( /\ \E agent \in AgentNames : C22_ProcessStep(agent)
         /\ ~( /\ sample.agent = "Study Planner Agent"
               /\ DurationWeeks(C21_Analysis).ok )
         /\ ~( /\ sample.agent = "Report Generator Agent"
               /\ DetectReportType(sample.query) = "student_performance" ) ) =>
          agent_logs' = agent_logs]_vars

\* what the responder of the sample returns when the store treats the
\* audit write as given, everything else as in this run
C23_Run(log_raises) ==
    IF sample.agent = "Study Planner Agent"
    THEN PlannerProcess(sample.query, sample.user_id, sample.reply,
                        StoreRaises, log_raises)
    ELSE IF sample.agent = "Assignment Manager Agent"
    THEN AssignmentProcess(sample.query, sample.user_id, sample.reply)
    ELSE IF sample.agent = "Report Generator Agent"
    THEN ReportProcess(sample.query, sample.user_id, sample.reply,
                       StoreRaises, log_raises)
    ELSE HelpdeskProcess(sample.query, sample.user_id, sample.context,
                         sample.reply, StoreRaises)

\* the request reaches its audit write
C23_WriteAttempted ==
    Len(Inserted(C23_Run(FALSE).writes, "agent_logs")) = 1

\* C23: a failure of the audit-log write never propagates: when
\* log_action's insert raises or the store is unreachable, the responder
\* returns the same envelope (same response, actions_performed, analysis
\* and data) as when the write succeeds, and no error action is added.
C23_AuditFailureNotPropagated ==
    [][( /\ verdict = <<>>
         /\ verdict' # <<>>
         /\ C23_WriteAttempted
         /\ sample.log_raises ) =>
           LET envelope == verdict'[2].envelope
               succeeded == C23_Run(FALSE).envelope
           IN  /\ envelope.success
               /\ envelope.response = succeeded.response
               /\ envelope.actions_performed = succeeded.actions_performed
               /\ envelope.analysis = succeeded.analysis
               /\ envelope.data = succeeded.data
               /\ \A i \in DOMAIN envelope.actions_performed :
                      envelope.actions_performed[i].type # "error"]_vars

\* the plan was saved, the audit write that followed raised and left no
\* entry, and the planner reported the plan as created
C23_PlanSavedLogLost ==
    /\ verdict # <<>>
    /\ sample.agent = "Study Planner Agent"
    /\ ~StoreRaises
    /\ sample.log_raises
    /\ Len(agenticplans) = 1
    /\ agent_logs = <<>>
    /\ verdict[2].envelope.actions_performed[1].type = "study_plan_created"

\* the step by which a request to the report generator or to the helpdesk
\* manager is processed
C24_AdminStep ==
    /\ verdict = <<>>
    /\ verdict' # <<>>
    /\ sample.agent \in {"Report Generator Agent", "Helpdesk Manager Agent"}

\* C24: an invocation of the report generator or of the helpdesk manager,
\* on every sub-operation and on the error path, writes to no collection
\* of the store but the audit log: every write it makes is an insert into
\* agent_logs, and the study plans and the conversations are as before.
C24_AdminWritesAuditLogOnly ==
    [][C24_AdminStep =>
          /\ \A i \in DOMAIN verdict'[2].writes :
                 verdict'[2].writes[i].collection = "agent_logs"
          /\ agenticplans' = agenticplans
          /\ conversations' = conversations
          /\ SubSeq(agent_logs', 1, Len(agent_logs)) = agent_logs]_vars

\* a student performance report wrote its audit entry after an earlier
\* one, and nothing else
C24_ReportLoggedOnly ==
    /\ verdict # <<>>
    /\ sample.agent = "Report Generator Agent"
    /\ Len(verdict[2].writes) = 1
    /\ Len(agent_logs) = 2
    /\ agent_logs[2].agent_name = "Report Generator Agent"
    /\ agenticplans = <<>>

\* request p has its reply: the conversational response was generated
C25_Replied(p) == pc[p] \in {"save", "return", "done", "replied"}

\* C25: no retries. Within one process_message call the router invokes
\* the text-completion provider at most once, and only on the
\* conversational path; after a provider failure the reply is the
\* rule-based fallback and the provider was not invoked again. Likewise
\* every generate_ai_response call of a responder invokes the provider at
\* most once.
C25_NoRetries ==
    \A p \in Slots :
        /\ Len(provider_calls[p]) <= 1
        /\ provider_calls[p] # <<>> => ~action_needed[p]
        /\ (C25_Replied(p) /\ provider_calls[p] = <<"raised">>) =>
               response_text[p] =
                   RuleBasedResponse(request[p].message, full_context[p])
        /\ \A i \in DOMAIN agent_calls[p] : Len(agent_calls[p][i]) <= 1

\* the provider failed the router once and the reply is the rule-based
\* fallback; the provider failed a responder's generate_ai_response once
C25_FailedOnceFellBack ==
    \E p \in Slots :
        /\ C25_Replied(p)
        /\ provider_calls[p] = <<"raised">>
        /\ response_text[p] =
               RuleBasedResponse(request[p].message, full_context[p])

\* a responder's one generate_ai_response call met a failing provider
C25_ResponderFailedOnce ==
    \E p \in Slots : agent_calls[p] = << <<"raised">> >>

\* request p has saved its exchange, and the record still holds it
C26_Stored(p) ==
    /\ pc[p] \in {"return", "done"}
    /\ conv_id[p] # Null
    /\ KeyOf(p) \in DOMAIN conversations
    /\ \E i \in DOMAIN conversations[KeyOf(p)] :
           conversations[KeyOf(p)][i].ex = request[p].ex

\* the turns of a record that the requests in exs wrote
C26_TurnsBy(record, exs) == SelectSeq(record, LAMBDA t : t.ex \in exs)

\* C26: no lost update. When a process_message call saves its exchange to
\* the record of (callerId, conversationId) that another call, not yet
\* delivered, has saved to, with the store reachable, the record becomes
\* what it was followed by the two new turns: the other call's turns stay
\* as they were, and the record then holds the 4 turns of the two
\* exchanges, each as its user turn followed by its assistant turn.
C26_NoLostUpdate ==
    [][\A p, q \in Slots :
          ( /\ p # q
            /\ SaveStep(q)
            /\ memory
            /\ ~StoreRaises
            /\ C26_Stored(p)
            /\ KeyOf(p) = KeyOf(q) ) =>
              LET before == conversations[KeyOf(q)]
                  after == conversations'[KeyOf(q)]
                  mine == Exchange(request[q].message, response_text[q],
                                   request[q].ex)
                  theirs == C26_TurnsBy(before, {request[p].ex})
              IN  /\ after = before \o mine
                  /\ Len(theirs) = 2
                  /\ C26_TurnsBy(after, {request[p].ex, request[q].ex}) =
                         theirs \o mine]_vars

\* two calls on one record overlapped: the second read the record before
\* the first saved to it, and both exchanges are stored, 4 turns in all
C26_BothExchangesStored ==
    \E p, q \in Slots :
        /\ p # q
        /\ C26_Stored(p)
        /\ C26_Stored(q)
        /\ KeyOf(p) = KeyOf(q)
        /\ conv[q] = <<>>
        /\ Len(conversations[KeyOf(q)]) = 4
        /\ conversations[KeyOf(q)][1].ex = request[p].ex
        /\ conversations[KeyOf(q)][4].ex = request[q].ex

\* the record request p is about to save to, as it is stored now
C27_Before(p) ==
    IF KeyOf(p) \in DOMAIN conversations THEN conversations[KeyOf(p)]
    ELSE <<>>

\* the step in which a conversational request p, which read its history
\* from the store, saves its exchange to the store
C27_ConversationalSave(p) ==
    /\ SaveStep(p)
    /\ ~action_needed[p]
    /\ memory
    /\ ~StoreRaises
    /\ "read" \notin store_faults[p]

\* turn t is one of the turns of seq
C27_Holds(seq, t) == \E j \in DOMAIN seq : seq[j] = t

\* C27 as stated: the history window a conversational request replied with
\* holds, up to the window bound, the turns of every exchange stored ahead
\* of the request's own two turns in the record, also when requests on the
\* same (callerId, conversationId) overlap.
C27_WindowHoldsAllPreceding ==
    [][\A p \in Slots :
          C27_ConversationalSave(p) =>
              LET preceding == LastN(C27_Before(p), HistoryWindow) IN
              \A i \in DOMAIN preceding :
                  C27_Holds(conversation_history[p], preceding[i])]_vars

\* C27, amended: the history window of a request is the window of the
\* record as it was stored when the request read it, at the start of the
\* call; of the turns stored ahead of a conversational request's own two
\* turns, the window holds (up to the window bound) those that were in the
\* record at that read, and not those another request on the same record
\* saved after it.
C27_WindowAsOfRead ==
    [][\A p \in Slots :
          /\ (ReadStep(p) /\ memory /\ ~StoreRaises) =>
                 /\ conv'[p] = C27_Before(p)
                 /\ conversation_history'[p] = LastN(C27_Before(p), HistoryWindow)
          /\ C27_ConversationalSave(p) =>
                 LET preceding == LastN(C27_Before(p), HistoryWindow) IN
                 \A i \in DOMAIN preceding :
                     \/ C27_Holds(conversation_history[p], preceding[i])
                     \/ ~C27_Holds(conv[p], preceding[i])]_vars

\* a conversational request read an empty record, another request then
\* saved its exchange to that record, and the first replied from a prompt
\* without history and saved its own exchange behind the other's
C27_RepliedWithoutEarlierExchange ==
    \E p, q \in Slots :
        /\ p # q
        /\ pc[q] = "return"
        /\ ~action_needed[q]
        /\ sent[q] # NoPrompt
        /\ Len(sent[q].messages) = 1
        /\ KeyOf(q) \in DOMAIN conversations
        /\ Len(conversations[KeyOf(q)]) = 4
        /\ conversations[KeyOf(q)][1].ex = request[p].ex
        /\ conversations[KeyOf(q)][3].ex = request[q].ex

\* the step in which the clear-history endpoint is called for user_id and
\* answers
C28_ClearStep(user_id) ==
    /\ clear_result'.calls = clear_result.calls + 1
    /\ clear_result'.user_id = user_id

\* the conversation ids under which anything is stored
C28_StoredIds == {k[2] : k \in DOMAIN conversations}

\* C28: clear_history(callerId) removes every conversation record of that
\* caller, so that a history read for any of the caller's conversation ids
\* then returns an empty window, and it leaves the records of every other
\* caller unchanged; the endpoint reports success=true, also when the
\* delete failed, in which case no record is removed.
C28_ClearRemovesCallersRecords ==
    [][\A user_id \in Senders :
          C28_ClearStep(user_id) =>
              /\ clear_result'.response.success
              /\ \A k \in DOMAIN conversations :
                     k[1] # user_id =>
                        /\ k \in DOMAIN conversations'
                        /\ conversations'[k] = conversations[k]
              /\ DOMAIN conversations' \subseteq DOMAIN conversations
              /\ IF StoreRaises
                 THEN conversations' = conversations
                 ELSE /\ \A k \in DOMAIN conversations' : k[1] # user_id
                      /\ \A cid \in C28_StoredIds :
                             GetConversationHistory(user_id, cid)' = <<>>]_vars

\* a caller's request had saved its exchange, the caller's history was then
\* cleared and the record is gone, while another caller's record is still
\* stored
C28_ClearedOneCallerOnly ==
    /\ clear_result.calls = 1
    /\ clear_result.response.success
    /\ \E p \in Slots :
           /\ request[p].user_id = clear_result.user_id
           /\ pc[p] \in {"return", "done"}
           /\ conv_id[p] # Null
           /\ memory
           /\ ~StoreRaises
           /\ "append" \notin store_faults[p]
           /\ response_text[p] # <<>>
    /\ \A k \in DOMAIN conversations : k[1] # clear_result.user_id
    /\ \E k \in DOMAIN conversations : Len(conversations[k]) = 2

\* the delete failed, the record is still stored, and the endpoint answered
\* success=true
C28_DeleteFailedReportedSuccess ==
    /\ clear_result.calls = 1
    /\ clear_result.response.success
    /\ StoreRaises
    /\ \E k \in DOMAIN conversations : k[1] = clear_result.user_id

\* process_voice_query has returned for the voice request in slot p
C29_VoiceReplied(p) == pc[p] = "replied" /\ request[p].channel = "voice"

\* process_message returned a result to the voice request in slot p
C29_RouterReturned(p) == DOMAIN result[p] # {}

\* C29: process_voice_query returns success=true whenever process_message
\* returned a result, with the formatted reply text and the result's
\* actions; this includes the router's failure envelope (success=false),
\* whose apology text is delivered as the voice response with an empty
\* actions list. It returns success=false only when an exception was
\* raised inside it, so that no result of process_message is relayed.
C29_VoiceSuccessMasksRouterFailure ==
    \A p \in Slots :
        C29_VoiceReplied(p) =>
            IF C29_RouterReturned(p)
            THEN /\ voice_result[p].success
                 /\ voice_result[p].response =
                        FormatForVoice(Get(result[p], "response", <<>>))
                 /\ voice_result[p].actions_taken =
                        Get(result[p], "actions_taken", <<>>)
                 /\ ~result[p].success =>
                        /\ voice_result[p].response = <<"apology">>
                        /\ voice_result[p].actions_taken = <<>>
            ELSE /\ ~voice_result[p].success
                 /\ request[p].message = Null

\* the router answered a voice query with its failure envelope, and the
\* voice reply carries the apology with success=true and no actions
C29_ApologySpokenAsSuccess ==
    \E p \in Slots :
        /\ C29_VoiceReplied(p)
        /\ C29_RouterReturned(p)
        /\ ~result[p].success
        /\ voice_result[p].success
        /\ voice_result[p].response = <<"apology">>
        /\ voice_result[p].actions_taken = <<>>

\* process of a responder has returned its envelope to the router in slot p
C30_FromResponder(p) == "agent_name" \in DOMAIN response_data[p]

\* the envelope in slot p was built by the except branch of process
C30_Caught(p) ==
    /\ C30_FromResponder(p)
    /\ \E i \in 1..Len(response_data[p].actions_performed) :
           response_data[p].actions_performed[i].type = "error"

\* process_message has returned the router's result for slot p
C30_Relayed(p) ==
    /\ pc[p] \in {"done", "replied"}
    /\ DOMAIN result[p] # {}

\* C30: every envelope a responder's process returns has success=true,
\* also when process caught an internal exception: the response is then
\* the responder's fallback text, actions_performed holds exactly one
\* entry, of type error with success=false, analysis and data are null,
\* and the router relays the fallback text in a result with success=true.
C30_ErrorEnvelopeSucceeds ==
    \A p \in Slots :
        C30_FromResponder(p) =>
            /\ response_data[p].success
            /\ C30_Caught(p) =>
                  /\ response_data[p].response =
                         FallbackResponse(response_data[p].agent_name,
                                          request[p].message)
                  /\ Len(response_data[p].actions_performed) = 1
                  /\ response_data[p].actions_performed[1].type = "error"
                  /\ ~response_data[p].actions_performed[1].success
                  /\ response_data[p].analysis = NullDict
                  /\ response_data[p].data = NullDict
                  /\ C30_Relayed(p) =>
                        /\ result[p].success
                        /\ result[p].response =
                               FallbackResponse(response_data[p].agent_name,
                                                request[p].message)

\* the planner caught an exception and the router returned its fallback
\* text in a successful result
C30_FallbackRelayedAsSuccess ==
    \E p \in Slots :
        /\ C30_Caught(p)
        /\ C30_Relayed(p)
        /\ response_data[p].success
        /\ result[p].success
        /\ result[p].response =
               FallbackResponse("Study Planner Agent", request[p].message)

\* the same of the envelope of each of the four responders, run on its own:
\* success=true always, and on the except branch the fallback text, the one
\* error entry and no analysis or data
C30_EveryResponderSucceeds ==
    verdict # <<>> =>
        LET envelope == verdict[2].envelope IN
        /\ envelope.success
        /\ (\E i \in 1..Len(envelope.actions_performed) :
                envelope.actions_performed[i].type = "error") =>
               envelope = ErrorEnvelope(sample.agent, sample.query)

\* the report generator caught the store's failure
C30_ReportGeneratorCaught ==
    /\ C21_Processed("Report Generator Agent")
    /\ verdict[2].envelope = ErrorEnvelope(sample.agent, sample.query)

====
